---------------------------- MODULE Spec2Model ----------------------------
(***************************************************************************)
(* JSLiteDB: the in-memory collection store (src/src/index.js), the        *)
(* Collection handle (class Collection, src/src/index.d.ts:280) and the    *)
(* WriteMutex (src/unnamed/part_001).                                      *)
(*                                                                         *)
(* The program is asynchronous JavaScript: one thread, and every `await`   *)
(* of a file-system call is a point where the other operations in flight   *)
(* may run.  Each operation is a process with a program counter; one       *)
(* action is the code between two such points.  An `await` that only       *)
(* yields to the microtask queue (an async function that returns without   *)
(* starting I/O) is joined with the code after it, except where the        *)
(* WriteMutex is involved.  File reads take effect when they complete;     *)
(* file writes capture their data when issued (JSON.stringify runs at the  *)
(* call) and land when they complete.                                      *)
(***************************************************************************)
EXTENDS Integers, Sequences, FiniteSets, TLC

(***************************************************************************)
(* Bounds and input sets                                                   *)
(***************************************************************************)
NumProcs == 3
NumCallers == 2
MaxSeqOps == 4
MaxMutexOps == 3
MaxDropOps == 4
MaxOps == 3
NumRefs == 5
MaxFindOps == 4
MaxSkip == 2
MaxLimit == 2
MaxMemoryItems == 2

Procs == 1..NumProcs
Refs == 1..NumRefs
NoRef == 0
CollNames == <<"u", "v">>
Colls == {CollNames[i] : i \in 1..Len(CollNames)}
Ids == {"a", "1"}
Docs == {"d1", "d2"}

IndexFile == ".index.json"
BackupPath == "backup.json"

(***************************************************************************)
(* The inner Map<id, document>: a sequence of <<id, document>> pairs in    *)
(* insertion order (JavaScript Map semantics).                             *)
(***************************************************************************)
MapKeys(m) == {m[i][1] : i \in 1..Len(m)}

MapHas(m, id) == id \in MapKeys(m)

MapGet(m, id) == LET i == CHOOSE j \in 1..Len(m) : m[j][1] = id IN m[i][2]

\* a Map that moves a key that is set again to the end
MapSetLast(m, id, doc) ==
  Append(SelectSeq(m, LAMBDA e : e[1] # id), <<id, doc>>)

\* a Map that puts a new key first
MapSetFirst(m, id, doc) ==
  IF \E i \in 1..Len(m) : m[i][1] = id
    THEN [i \in 1..Len(m) |-> IF m[i][1] = id THEN <<id, doc>> ELSE m[i]]
    ELSE <<<<id, doc>>>> \o m

\* Map.prototype.set: an existing key keeps its position, a new key is appended
MapSet(m, id, doc) ==
  IF MapHas(m, id)
    THEN [i \in 1..Len(m) |-> IF m[i][1] = id THEN <<id, doc>> ELSE m[i]]
    ELSE Append(m, <<id, doc>>)

MapDelete(m, id) == SelectSeq(m, LAMBDA e : e[1] # id)

\* the value of an id that JavaScript treats as an array index ("1", "2"), else -1
ArrayIndex(id) ==
  CASE id = "0" -> 0
    [] id = "1" -> 1
    [] id = "2" -> 2
    [] OTHER -> -1

RECURSIVE SortByIndex(_)
SortByIndex(s) ==
  IF Len(s) <= 1 THEN s
  ELSE LET k == CHOOSE i \in 1..Len(s) :
                  \A j \in 1..Len(s) : ArrayIndex(s[i][1]) <= ArrayIndex(s[j][1])
           rest == [i \in 1..(Len(s) - 1) |-> IF i < k THEN s[i] ELSE s[i + 1]]
       IN <<s[k]>> \o SortByIndex(rest)

\* Object.fromEntries(map) followed by JSON.stringify: the properties of a
\* JavaScript object are enumerated with array-index keys first, in ascending
\* numeric order, then the other keys in insertion order
ObjectFromEntries(m) ==
  SortByIndex(SelectSeq(m, LAMBDA e : ArrayIndex(e[1]) >= 0))
    \o SelectSeq(m, LAMBDA e : ArrayIndex(e[1]) < 0)

\* a load that stops after the first property
MapFromObjectFirst(obj) ==
  IF obj = <<>> THEN <<>> ELSE <<ObjectFromEntries(obj)[1]>>

\* JSON.parse followed by `for (const [id, document] of Object.entries(..))
\* dataMap.set(id, document)`: the Map takes the object's property order
MapFromObject(obj) == ObjectFromEntries(obj)

(***************************************************************************)
(* Files: a file is absent, unparseable, or holds JSON                     *)
(***************************************************************************)
Absent == [st |-> "absent", data |-> <<>>]
Corrupt == [st |-> "corrupt", data |-> <<>>]
File(d) == [st |-> "ok", data |-> d]
NoManifest == [st |-> "absent", data |-> {}]
BadManifest == [st |-> "corrupt", data |-> {}]

(***************************************************************************)
(* The cache Map<"collection:id", document>, in insertion order            *)
(***************************************************************************)
CacheKey(c, id) == c \o ":" \o id

StartsWith(s, prefix) ==
  /\ Len(s) >= Len(prefix)
  /\ SubSeq(s, 1, Len(prefix)) = prefix

VARIABLES
  isInitialized,    \* JSLiteDB.isInitialized
  collectionData,   \* JSLiteDB.collectionData: collection -> reference of its Map
  heap,             \* the Map objects: reference -> Map<id, document>
  collectionFiles,  \* JSLiteDB.collectionFiles: the collections with a file path
  cache,            \* JSLiteDB.cache
  locked,           \* WriteMutex.locked
  queue,            \* WriteMutex.queue: the waiting callers, oldest first
  disk,             \* the collection files of the storage folder
  manifest,         \* the file .index.json
  backupFile,       \* the file written by backup() and read by restore()
  proc,             \* the operations in flight, one per caller
  ops,              \* the number of calls the callers may still make
  order,            \* history: the callers of _acquire whose fn has not started,
                    \* in the order of their calls
  quiet,            \* history: per caller, no bootstrap and no operation that
                    \* bypasses the WriteMutex has overlapped its call so far
  emptied,          \* history: per caller, its delete took the last document
  lastAck,          \* history: the last update or delete that returned, while
                    \* the Maps in memory are as they were when it returned
  inserted,         \* history: where it is kept, the documents inserted so
                    \* far, in the order of their `collectionData.set`
  emitted,          \* history: where it is kept, the collection event emitted
                    \* last and, per caller, how many its call has emitted
  observed          \* history: where it is kept, what the store held when
                    \* the last restore was called or, if it was called before
                    \* the bootstrap, what its bootstrap loaded

store == <<isInitialized, collectionData, heap, collectionFiles, cache>>
mutex == <<locked, queue>>
files == <<disk, manifest, backupFile>>
history == <<quiet, emptied, lastAck, inserted, observed, emitted>>
vars == <<isInitialized, collectionData, heap, collectionFiles, cache,
          locked, queue, disk, manifest, backupFile, proc, ops, order,
          quiet, emptied, lastAck, inserted, observed, emitted>>

CacheHas(ch, key) == \E i \in 1..Len(ch) : ch[i][1] = key

CacheGet(ch, key) == LET i == CHOOSE j \in 1..Len(ch) : ch[j][1] = key IN ch[i][2]

CacheSet(ch, key, value) ==
  IF CacheHas(ch, key)
    THEN [i \in 1..Len(ch) |-> IF ch[i][1] = key THEN <<key, value>> ELSE ch[i]]
    ELSE Append(ch, <<key, value>>)

CacheDelete(ch, key) == SelectSeq(ch, LAMBDA e : e[1] # key)

\* a cache that never evicts
AddToCacheUnbounded(ch, key, value) == CacheSet(ch, key, value)

\* JSLiteDB._addToCache: at capacity the first key is removed, then the key is set
AddToCache(ch, key, value) ==
  LET room == IF Len(ch) >= MaxMemoryItems /\ Len(ch) > 0 THEN Tail(ch) ELSE ch
  IN CacheSet(room, key, value)

(***************************************************************************)
(* Operations in flight.  pc is the await the operation is suspended at.   *)
(***************************************************************************)
Mutations == {"insert", "update", "delete"}

\* a backup file holds an object per collection; Absent: not in the backup
NoBackup == [c \in Colls |-> Absent]
NoBackupFile == [st |-> "absent", data |-> NoBackup]
BadBackupFile == [st |-> "corrupt", data |-> NoBackup]

\* restore's copies of the two outer Maps; the inner Maps are shared
NoSnapshot == [data |-> [c \in Colls |-> NoRef], files |-> {}]

\* `limit` and `filter` of find's options may be missing.  A filter is
\* modelled by the set of ids whose documents it accepts.
Undefined == -1
NoOptions == [skip |-> 0, limit |-> Undefined, filter |-> FALSE, pass |-> {}]

IdleProc ==
  [pc |-> "idle", op |-> "none", c |-> "", id |-> "", doc |-> "",
   result |-> "none",
   opts |-> NoOptions,   \* find: its options
   found |-> <<>>,       \* find: the array it returned, as <<id, document>> pairs
   ref |-> NoRef,        \* the local `collectionData` of delete
   cur |-> "",           \* the collection a loop is at
   todo |-> {},          \* the collections a loop over a fixed list has left
   visited |-> {},       \* the collections a live Map iterator has passed
   wkind |-> "none",     \* the file operation in flight: write or unlink
   wfile |-> "",         \* its file
   wcoll |-> <<>>,       \* the data a collection-file write captured
   wlist |-> {},         \* the data a manifest write captured
   raceW |-> FALSE,      \* another write of the same file overlapped this one
   raceU |-> FALSE,      \* the file was unlinked while this write was in flight
   wbak |-> NoBackup,    \* the data a backup write captured
   bak |-> NoBackup,     \* restore: the parsed backup
   old |-> NoSnapshot]   \* restore: oldCollectionData and oldCollectionFiles

\* the references some variable still holds
UsedRefs(cd, pr) ==
  ({cd[c] : c \in Colls} \cup {pr[p].ref : p \in Procs}
     \cup {pr[p].old.data[c] : p \in Procs, c \in Colls}) \ {NoRef}

\* Map objects nothing refers to are garbage
Collect(h, cd, pr) ==
  [r \in Refs |-> IF r \in UsedRefs(cd, pr) THEN h[r] ELSE <<>>]

\* `new Map()` for collection c.  Which reference a new object gets is
\* immaterial: the Map registered for a collection takes the collection's own
\* number unless an older Map of it is still referred to, and then the
\* smallest free one above
Home(c) == CHOOSE i \in 1..Len(CollNames) : CollNames[i] = c

NewRefIn(c, cd, pr) ==
  LET others == ({cd[d] : d \in Colls \ {c}}
                   \cup {pr[p].ref : p \in Procs}
                   \cup {pr[p].old.data[d] : p \in Procs, d \in Colls}) \ {NoRef}
      spare == {r \in Refs : r > Len(CollNames) /\ r \notin UsedRefs(cd, pr)}
  IN IF Home(c) \notin others THEN Home(c)
     ELSE CHOOSE r \in spare : \A q \in spare : r <= q

NewRef(c) == NewRefIn(c, collectionData, proc)

\* the writes of file f that are in flight
Writers(pr, f) == {q \in Procs : pr[q].wkind = "write" /\ pr[q].wfile = f}

\* a file operation on f is in flight
Busy(pr, f) == \E q \in Procs : pr[q].wkind # "none" /\ pr[q].wfile = f

\* p issues fs.writeFile(f, data): two writes of one file that overlap race
IssueWrite(pr, p, f, rec) ==
  [q \in Procs |->
     IF q = p
       THEN [rec EXCEPT !.wkind = "write", !.wfile = f,
                        !.raceW = (Writers(pr, f) \ {p} # {}), !.raceU = FALSE]
     ELSE IF q \in Writers(pr, f) THEN [pr[q] EXCEPT !.raceW = TRUE]
     ELSE pr[q]]

\* p issues fs.unlink(f)
IssueUnlink(pr, p, f, rec) ==
  [pr EXCEPT ![p] = [rec EXCEPT !.wkind = "unlink", !.wfile = f]]

\* the file operation of p completed; an unlink marks the writes it overlapped
FileOpDone(pr, p, rec) ==
  [q \in Procs |->
     IF q = p
       THEN [rec EXCEPT !.wkind = "none", !.wfile = "", !.wcoll = <<>>,
                        !.wlist = {}, !.wbak = NoBackup,
                        !.raceW = FALSE, !.raceU = FALSE]
     ELSE IF pr[p].wkind = "unlink" /\ q \in Writers(pr, pr[p].wfile)
       THEN [pr[q] EXCEPT !.raceU = TRUE]
     ELSE pr[q]]

\* what a completed write of a collection file leaves in the file: its data,
\* or a mix of two overlapping writes, or nothing if the directory entry was
\* unlinked after the file had been opened
WriteResults(r) ==
  {File(r.wcoll)} \cup (IF r.raceW THEN {Corrupt} ELSE {})
                  \cup (IF r.raceU THEN {Absent} ELSE {})

ManifestWriteResults(r) ==
  {File(r.wlist)} \cup (IF r.raceW THEN {BadManifest} ELSE {})
                  \cup (IF r.raceU THEN {NoManifest} ELSE {})

\* what fs.readFile returns: the content, or a part of it while a write of
\* the file is in flight
BackupWriteResults(r) ==
  {[st |-> "ok", data |-> r.wbak]} \cup (IF r.raceW THEN {BadBackupFile} ELSE {})

ReadResults(pr, c) ==
  {disk[c]} \cup (IF Writers(pr, c) # {} THEN {Corrupt} ELSE {})

ManifestReadResults(pr) ==
  {manifest} \cup (IF Writers(pr, IndexFile) # {} THEN {BadManifest} ELSE {})

TypeOK ==
  /\ isInitialized \in BOOLEAN
  /\ collectionData \in [Colls -> Refs \cup {NoRef}]
  /\ collectionFiles \subseteq Colls
  /\ locked \in BOOLEAN
  /\ \A i \in 1..Len(queue) : queue[i] \in Procs
  /\ ops \in Nat

\* the fields as the constructor leaves them
Fresh ==
  /\ isInitialized = FALSE
  /\ collectionData = [c \in Colls |-> NoRef]
  /\ collectionFiles = {}
  /\ cache = <<>>

NoAck == [c |-> "", id |-> "", doc |-> "", seen |-> FALSE]

Untracked == [on |-> FALSE, seq |-> <<>>]
Tracked == [on |-> TRUE, seq |-> <<>>]

\* a new instance: `new JSLiteDB(options)` and its `new WriteMutex()`
Constructed ==
  /\ Fresh
  /\ heap = [r \in Refs |-> <<>>]
  /\ locked = FALSE
  /\ queue = <<>>
  /\ proc = [p \in Procs |-> IdleProc]
  /\ order = <<>>
  /\ quiet = [p \in Procs |-> TRUE]
  /\ emptied = [p \in Procs |-> FALSE]
  /\ lastAck = NoAck

\* a storage folder nothing was written to
EmptyFolder ==
  /\ disk = [c \in Colls |-> Absent]
  /\ manifest = NoManifest
  /\ backupFile = NoBackupFile

\* the folder an earlier instance left after insert("a", d1) into "u"
UsedFolder ==
  /\ disk = [c \in Colls |-> IF c = "u" THEN File(<<<<"a", "d1">>>>) ELSE Absent]
  /\ manifest = [st |-> "ok", data |-> {"u"}]
  /\ backupFile = NoBackupFile

\* the same folder with .index.json lost
UnlistedFolder ==
  /\ disk = [c \in Colls |-> IF c = "u" THEN File(<<<<"a", "d1">>>>) ELSE Absent]
  /\ manifest = NoManifest
  /\ backupFile = NoBackupFile

\* a folder with two collection files and a manifest that is not JSON
BrokenFolder ==
  /\ disk = [c \in Colls |-> IF c = "u" THEN File(<<<<"a", "d1">>>>)
                                        ELSE File(<<<<"1", "d2">>>>)]
  /\ manifest = BadManifest
  /\ backupFile = NoBackupFile

Init ==
  /\ Constructed
  /\ EmptyFolder
  /\ ops = MaxOps
  /\ inserted = Untracked
  /\ observed = [on |-> FALSE, known |-> FALSE, view |-> NoBackup]
  /\ emitted = [on |-> FALSE, last |-> <<>>, n |-> [p \in Procs |-> 0]]

(***************************************************************************)
(* History variables, for stating the properties                           *)
(***************************************************************************)
\* what the store holds: per collection, no Map or the Map's entries
View(cd, h) == [c \in Colls |-> IF cd[c] = NoRef THEN Absent ELSE File(h[cd[c]])]

\* a count that reads the cache
CountCached(cd, h, ch) == Len(ch)

\* JSLiteDB.count: the sizes of the inner Maps, added up in a loop over the
\* values of collectionData
Count(cd, h, ch) ==
  LET RECURSIVE total(_)
      total(i) == IF i = 0 THEN 0
                  ELSE total(i - 1) + (IF cd[CollNames[i]] = NoRef THEN 0
                                       ELSE Len(h[cd[CollNames[i]]]))
  IN total(Len(CollNames))

\* Collection.count without a filter: 0 without a Map, else the Map's size
CollectionCount(cd, h, c) == IF cd[c] = NoRef THEN 0 ELSE Len(h[cd[c]])

\* JSLiteDB.getStats: an entry per key of collectionData with the size of its
\* Map, and totalDocuments, which the same loop adds up
GetStats(cd, h, ch) ==
  LET RECURSIVE stats(_)
      stats(i) ==
        IF i = 0 THEN [collections |-> <<>>, totalDocuments |-> 0]
        ELSE LET c == CollNames[i]
                 st == stats(i - 1)
             IN IF cd[c] = NoRef THEN st
                ELSE [collections |->
                        Append(st.collections,
                               [name |-> c, documentCount |-> Len(h[cd[c]])]),
                      totalDocuments |-> st.totalDocuments + Len(h[cd[c]])]
  IN [collections |-> stats(Len(CollNames)).collections,
      totalDocuments |-> stats(Len(CollNames)).totalDocuments,
      cacheSize |-> Len(ch),
      collectionCount |-> Cardinality({c \in Colls : cd[c] # NoRef})]

BootPcs == {"readIndex", "loadIndexed", "readdir", "scanLoad", "bootSaveIndex"}

\* the operation is bootstrapping, or is one that does not take the WriteMutex
Unserial(r) ==
  /\ r.pc # "idle"
  /\ r.op \notin Mutations \cup {"findById", "find"} \/ r.pc \in BootPcs

\* an update returns successfully, or a delete returns true, and no bootstrap
\* and no operation outside the WriteMutex overlapped the call
Acked(p) ==
  /\ proc[p].pc = "settled"
  /\ proc'[p].pc = "idle"
  /\ proc[p].op \in {"update", "delete"}
  /\ proc[p].result \in {"ok", "true"}
  /\ quiet[p]

\* a findById of the document of the last update or delete returns
Read(p) ==
  /\ proc[p].op = "findById"
  /\ proc[p].pc = "entered"
  /\ proc'[p].pc = "idle"
  /\ lastAck.c = proc[p].c
  /\ lastAck.id = proc[p].id

\* an insert sets its document in the Map of its collection
Inserts(p) ==
  /\ proc[p].op = "insert"
  /\ proc[p].pc \in {"granted", "loadColl"}
  /\ proc'[p].pc = "saveColl"

\* an event emitted as soon as the Map is changed
EmitsEarly(p) ==
  /\ proc[p].op \in Mutations
  /\ proc[p].pc \in {"granted", "loadColl"}
  /\ proc'[p].pc \in {"saveColl", "deleteSave"}

\* insert, update and delete emit their event when _saveCollectionIndex has
\* returned, before fn returns
Emits(p) ==
  /\ proc[p].op \in Mutations
  /\ proc[p].pc = "saveIndex"
  /\ proc'[p].pc = "settled"
  /\ proc'[p].result # "error"

History ==
  /\ quiet' = [p \in Procs |->
                 IF proc'[p].pc = "idle" THEN TRUE
                 ELSE /\ proc[p].pc = "idle" \/ quiet[p]
                      /\ ~\E q \in Procs \ {p} : Unserial(proc'[q])]
  /\ emptied' = [p \in Procs |->
                   IF proc'[p].pc = "idle" THEN FALSE
                   ELSE IF proc[p].pc = "granted" /\ proc'[p].pc = "deleteSave"
                     THEN Len(heap'[proc'[p].ref]) = 0
                   ELSE emptied[p]]
  /\ lastAck' =
       IF \E p \in Procs : Acked(p)
         THEN LET p == CHOOSE q \in Procs : Acked(q)
              IN [c |-> proc[p].c, id |-> proc[p].id,
                  doc |-> IF proc[p].op = "update" THEN proc[p].doc ELSE "null",
                  seen |-> FALSE]
       ELSE IF View(collectionData', heap') # View(collectionData, heap) THEN NoAck
       ELSE IF \E p \in Procs : Read(p) THEN [lastAck EXCEPT !.seen = TRUE]
       ELSE lastAck
  /\ inserted' =
       IF inserted.on /\ \E p \in Procs : Inserts(p)
         THEN LET p == CHOOSE q \in Procs : Inserts(q)
              IN [inserted EXCEPT !.seq = Append(@, <<proc[p].c, proc[p].id, proc[p].doc>>)]
       ELSE inserted
  /\ emitted' =
       IF ~emitted.on THEN emitted
       ELSE [emitted EXCEPT
               !.last = IF \E p \in Procs : Emits(p)
                          THEN LET p == CHOOSE q \in Procs : Emits(q)
                               IN <<proc[p].op, proc[p].c, proc[p].id>>
                          ELSE @,
               !.n = [p \in Procs |->
                        IF proc[p].pc = "idle" /\ proc'[p].pc # "idle" THEN 0
                        ELSE IF Emits(p) THEN @[p] + 1 ELSE @[p]]]
  /\ observed' =
       IF ~observed.on THEN observed
       ELSE IF \E p \in Procs : proc[p].pc = "idle" /\ proc'[p].pc = "restoreRead"
         THEN [observed EXCEPT !.known = isInitialized,
                               !.view = View(collectionData, heap)]
       ELSE IF /\ ~observed.known
               /\ \E p \in Procs : /\ proc[p].op = "restore"
                                    /\ proc[p].pc \in BootPcs
                                    /\ proc'[p].pc = "entered"
         THEN [observed EXCEPT !.known = TRUE,
                               !.view = View(collectionData', heap')]
       ELSE observed

(***************************************************************************)
(* Live Map iterators: clear() walks collectionFiles and save() walks      *)
(* collectionData while awaiting.  A key deleted from the Map and set      *)
(* again is appended, so the iterator meets it again.                      *)
(***************************************************************************)
ForgetFiles(pr, cs) ==
  [q \in Procs |-> IF pr[q].op = "clear"
                     THEN [pr[q] EXCEPT !.visited = @ \ cs] ELSE pr[q]]

ForgetData(pr, cs) ==
  [q \in Procs |-> IF pr[q].op = "save"
                     THEN [pr[q] EXCEPT !.visited = @ \ cs] ELSE pr[q]]

(***************************************************************************)
(* JSLiteDB._ensureInitialized and the bootstrap it runs                   *)
(***************************************************************************)
\* the synchronous part of `await this._ensureInitialized()`: the flag is
\* read at the call; _ensureFolder changes nothing the model holds, so an
\* uninitialized caller is next suspended at the read of .index.json
EnsureInitialized(rec) ==
  IF isInitialized THEN [rec EXCEPT !.pc = "entered"]
                   ELSE [rec EXCEPT !.pc = "readIndex"]

\* the store is at rest: no operation is in flight
Quiescent == \A p \in Procs : proc[p].pc = "idle"

\* a Map and a cache keyed by the id as it was given: a number stays apart
\* from the string of its digits
NumberKept(n) == "#" \o ToString(n)

\* `String(id)` and `${id}` of an id that is a whole number: its decimal
\* digits.  An id that is a string is its own conversion.
NumberToString(n) == ToString(n)

\* insert, update, delete or findById is called with a number as the id
CallNumeric(p, cs, ns) ==
  /\ proc[p].pc = "idle"
  /\ ops > 0
  /\ \E c \in cs, n \in ns :
       \/ \E op \in {"insert", "update"}, doc \in Docs :
            proc' = [proc EXCEPT ![p] = EnsureInitialized(
                       [IdleProc EXCEPT !.op = op, !.c = c,
                                        !.id = NumberToString(n), !.doc = doc])]
       \/ \E op \in {"delete", "findById"} :
            proc' = [proc EXCEPT ![p] = EnsureInitialized(
                       [IdleProc EXCEPT !.op = op, !.c = c,
                                        !.id = NumberToString(n)])]
  /\ ops' = ops - 1
  /\ UNCHANGED <<store, mutex, files, order>>
  /\ History

\* a public method is called by one of the callers
CallInsert(p, cs, ids) ==
  /\ proc[p].pc = "idle"
  /\ ops > 0
  /\ \E c \in cs, id \in ids, doc \in Docs :
       proc' = [proc EXCEPT ![p] = EnsureInitialized(
                  [IdleProc EXCEPT !.op = "insert", !.c = c, !.id = id, !.doc = doc])]
  /\ ops' = ops - 1
  /\ UNCHANGED <<store, mutex, files, order>>
  /\ History

CallUpdate(p, cs, ids) ==
  /\ proc[p].pc = "idle"
  /\ ops > 0
  /\ \E c \in cs, id \in ids, doc \in Docs :
       proc' = [proc EXCEPT ![p] = EnsureInitialized(
                  [IdleProc EXCEPT !.op = "update", !.c = c, !.id = id, !.doc = doc])]
  /\ ops' = ops - 1
  /\ UNCHANGED <<store, mutex, files, order>>
  /\ History

CallDelete(p, cs, ids) ==
  /\ proc[p].pc = "idle"
  /\ ops > 0
  /\ \E c \in cs, id \in ids :
       proc' = [proc EXCEPT ![p] = EnsureInitialized(
                  [IdleProc EXCEPT !.op = "delete", !.c = c, !.id = id])]
  /\ ops' = ops - 1
  /\ UNCHANGED <<store, mutex, files, order>>
  /\ History

CallFindById(p, cs, ids) ==
  /\ proc[p].pc = "idle"
  /\ ops > 0
  /\ \E c \in cs, id \in ids :
       proc' = [proc EXCEPT ![p] = EnsureInitialized(
                  [IdleProc EXCEPT !.op = "findById", !.c = c, !.id = id])]
  /\ ops' = ops - 1
  /\ UNCHANGED <<store, mutex, files, order>>
  /\ History

\* _ensureInitialized after the bootstrap: `this.isInitialized = true`
Initialized(p, pr) ==
  /\ isInitialized' = TRUE
  /\ proc' = [pr EXCEPT ![p] = [pr[p] EXCEPT !.pc = "entered", !.cur = "", !.todo = {}]]

\* _loadCollectionIndex: the next collection of indexData.collections, if any:
\* its path is registered and the read of its file is started
LoadNext(p, pr, cf, todo) ==
  IF todo = {}
    THEN /\ collectionFiles' = cf
         /\ Initialized(p, pr)
    ELSE /\ \E c \in todo :
              /\ collectionFiles' = cf \cup {c}
              /\ proc' = [pr EXCEPT ![p] =
                            [pr[p] EXCEPT !.pc = "loadIndexed", !.cur = c, !.todo = todo \ {c}]]
         /\ UNCHANGED isInitialized

\* _scanCollections: the next file of the folder listing, if any; after the
\* last one _ensureInitialized starts the write of a fresh manifest
ScanNext(p, pr, cf, todo) ==
  IF todo = {}
    THEN /\ collectionFiles' = cf
         /\ proc' = IssueWrite(pr, p, IndexFile,
                       [pr[p] EXCEPT !.pc = "bootSaveIndex", !.cur = "", !.todo = {},
                                   !.wlist = cf])
    ELSE \E c \in todo :
           /\ collectionFiles' = cf \cup {c}
           /\ proc' = [pr EXCEPT ![p] =
                         [pr[p] EXCEPT !.pc = "scanLoad", !.cur = c, !.todo = todo \ {c}]]

\* the read of .index.json completed: _loadCollectionIndex goes on, or, the
\* manifest being missing or unparseable, _scanCollections clears both maps
\* and lists the folder
ReadIndexDone(p) ==
  /\ proc[p].pc = "readIndex"
  /\ \E m \in ManifestReadResults(proc) :
       IF m.st = "ok"
         THEN /\ LoadNext(p, proc, collectionFiles, m.data)
              /\ UNCHANGED <<collectionData, heap>>
         ELSE /\ collectionFiles' = {}
              /\ collectionData' = [c \in Colls |-> NoRef]
              /\ proc' = [ForgetData(ForgetFiles(proc, Colls), Colls)
                            EXCEPT ![p] = [proc[p] EXCEPT !.pc = "readdir"]]
              /\ heap' = Collect(heap, collectionData', proc')
              /\ UNCHANGED isInitialized
  /\ UNCHANGED <<cache, mutex, files, ops, order>>
  /\ History

\* _loadCollectionIndex: the read of a listed collection's file completed
LoadIndexedDone(p) ==
  /\ proc[p].pc = "loadIndexed"
  /\ LET c == proc[p].cur IN
     \E f \in ReadResults(proc, c) :
       IF f.st = "ok"
         THEN /\ collectionData' = [collectionData EXCEPT ![c] = NewRef(c)]
              /\ LoadNext(p, proc, collectionFiles, proc[p].todo)
              /\ heap' = Collect([heap EXCEPT ![NewRef(c)] = MapFromObject(f.data)],
                                 collectionData', proc')
         ELSE /\ LoadNext(p, ForgetFiles(proc, {c}), collectionFiles \ {c}, proc[p].todo)
              /\ UNCHANGED <<collectionData, heap>>
  /\ UNCHANGED <<cache, mutex, files, ops, order>>
  /\ History

\* the set of .json files fs.readdir reports: those that exist, and possibly
\* those a write in flight is creating
Listings(pr) ==
  LET there == {c \in Colls : disk[c].st # "absent"}
      coming == {c \in Colls : disk[c].st = "absent" /\ Writers(pr, c) # {}}
  IN {there \cup s : s \in SUBSET coming}

\* _scanCollections: the folder listing arrived
ReaddirDone(p) ==
  /\ proc[p].pc = "readdir"
  /\ \E ls \in Listings(proc) : ScanNext(p, proc, collectionFiles, ls)
  /\ UNCHANGED <<isInitialized, collectionData, heap, cache, mutex, files, ops, order>>
  /\ History

\* _scanCollections: the read of a listed file completed; a file that cannot
\* be read or parsed is skipped with a warning and keeps its path
ScanLoadDone(p) ==
  /\ proc[p].pc = "scanLoad"
  /\ LET c == proc[p].cur IN
     \E f \in ReadResults(proc, c) :
       IF f.st = "ok"
         THEN /\ collectionData' = [collectionData EXCEPT ![c] = NewRef(c)]
              /\ ScanNext(p, proc, collectionFiles, proc[p].todo)
              /\ heap' = Collect([heap EXCEPT ![NewRef(c)] = MapFromObject(f.data)],
                                 collectionData', proc')
         ELSE /\ ScanNext(p, proc, collectionFiles, proc[p].todo)
              /\ UNCHANGED <<collectionData, heap>>
  /\ UNCHANGED <<isInitialized, cache, mutex, files, ops, order>>
  /\ History

\* a bootstrap that does not write the manifest after the scan
BootSaveIndexKept(p) ==
  /\ proc[p].pc = "bootSaveIndex"
  /\ isInitialized' = TRUE
  /\ proc' = FileOpDone(proc, p, [proc[p] EXCEPT !.pc = "entered"])
  /\ UNCHANGED <<collectionData, heap, collectionFiles, cache, mutex, files,
                 ops, order>>
  /\ History

\* _ensureInitialized: the manifest written after the scan landed
BootSaveIndexDone(p) ==
  /\ proc[p].pc = "bootSaveIndex"
  /\ \E m \in ManifestWriteResults(proc[p]) : manifest' = m
  /\ isInitialized' = TRUE
  /\ proc' = FileOpDone(proc, p, [proc[p] EXCEPT !.pc = "entered"])
  /\ UNCHANGED <<collectionData, heap, collectionFiles, cache, mutex, disk,
                 backupFile, ops, order>>
  /\ History


(***************************************************************************)
(* WriteMutex                                                              *)
(***************************************************************************)
\* the operation returned to its caller: only the call and its result stay
Finish(rec, result) ==
  [IdleProc EXCEPT !.op = rec.op, !.c = rec.c, !.id = rec.id, !.doc = rec.doc,
                   !.result = result]

\* a release that wakes the newest waiter
ShiftLast(q) == [next |-> q[Len(q)], rest |-> SubSeq(q, 1, Len(q) - 1)]

\* WriteMutex.release: `const next = this.queue.shift()`
Shift(q) == [next |-> Head(q), rest |-> Tail(q)]

\* a release that always clears the flag
UnlockedAfterRelease(q) == FALSE

\* WriteMutex.release: the lock stays taken when it is handed to a waiter
LockedAfterRelease(q) == Len(q) > 0

\* an _acquire that never waits
AcquireUnguarded(p) ==
  /\ proc[p].pc = "entered"
  /\ proc[p].op \in Mutations
  /\ locked' = TRUE
  /\ queue' = queue
  /\ proc' = [proc EXCEPT ![p].pc = "granted"]
  /\ order' = Append(order, p)
  /\ UNCHANGED <<store, files, ops>>
  /\ History

\* WriteMutex.acquire(fn) up to its `await this._acquire()`: the executor of
\* _acquire runs at the call and takes the lock or queues the resolver
Acquire(p) ==
  /\ proc[p].pc = "entered"
  /\ proc[p].op \in Mutations
  /\ IF ~locked
       THEN /\ locked' = TRUE
            /\ queue' = queue
            /\ proc' = [proc EXCEPT ![p].pc = "granted"]
       ELSE /\ locked' = locked
            /\ queue' = Append(queue, p)
            /\ proc' = [proc EXCEPT ![p].pc = "waiting"]
  /\ order' = Append(order, p)
  /\ UNCHANGED <<store, files, ops>>
  /\ History

\* an acquire without `finally`: the lock is released only when fn returned
ReleaseUnlessFailed(p) ==
  /\ proc[p].pc = "settled"
  /\ IF proc[p].result \in {"error", "conflict"}
       THEN /\ locked' = locked
            /\ queue' = queue
            /\ proc' = [proc EXCEPT ![p] = Finish(proc[p], proc[p].result)]
       ELSE /\ locked' = LockedAfterRelease(queue)
            /\ IF Len(queue) > 0
                 THEN /\ queue' = Shift(queue).rest
                      /\ proc' = [proc EXCEPT ![p] = Finish(proc[p], proc[p].result),
                                              ![Shift(queue).next].pc = "granted"]
                 ELSE /\ queue' = queue
                      /\ proc' = [proc EXCEPT ![p] = Finish(proc[p], proc[p].result)]
  /\ UNCHANGED <<store, files, ops, order>>
  /\ History

\* a release that takes the next resolver from the queue and never calls it
ReleaseDropping(p) ==
  /\ proc[p].pc = "settled"
  /\ locked' = LockedAfterRelease(queue)
  /\ queue' = IF Len(queue) > 0 THEN Shift(queue).rest ELSE queue
  /\ proc' = [proc EXCEPT ![p] = Finish(proc[p], proc[p].result)]
  /\ UNCHANGED <<store, files, ops, order>>
  /\ History

\* WriteMutex.acquire(fn): fn has settled, `finally { this.release() }`, and
\* the result or the error goes to the caller
Release(p) ==
  /\ proc[p].pc = "settled"
  /\ locked' = LockedAfterRelease(queue)
  /\ IF Len(queue) > 0
       THEN /\ queue' = Shift(queue).rest
            /\ proc' = [proc EXCEPT ![p] = Finish(proc[p], proc[p].result),
                                    ![Shift(queue).next].pc = "granted"]
       ELSE /\ queue' = queue
            /\ proc' = [proc EXCEPT ![p] = Finish(proc[p], proc[p].result)]
  /\ UNCHANGED <<store, files, ops, order>>
  /\ History

(***************************************************************************)
(* A reentrant caller of the WriteMutex:                                   *)
(*   mutex.acquire(async () => { await mutex.acquire(g); ... })            *)
(***************************************************************************)
\* acquire(fn) is called: the executor of _acquire runs at the call and takes
\* the lock or queues the resolver
CallReenter(p) ==
  /\ proc[p].pc = "idle"
  /\ ops > 0
  /\ IF ~locked
       THEN /\ locked' = TRUE
            /\ queue' = queue
            /\ proc' = [proc EXCEPT ![p] = [IdleProc EXCEPT !.op = "reenter",
                                                            !.pc = "granted"]]
       ELSE /\ locked' = locked
            /\ queue' = Append(queue, p)
            /\ proc' = [proc EXCEPT ![p] = [IdleProc EXCEPT !.op = "reenter",
                                                            !.pc = "waiting"]]
  /\ ops' = ops - 1
  /\ order' = Append(order, p)
  /\ UNCHANGED <<store, files>>
  /\ History

\* a mutex that lets its holder through: g and the rest of fn run
ReenterGranted(p) ==
  /\ proc[p].op = "reenter"
  /\ \/ /\ proc[p].pc = "granted"
        /\ queue' = Append(queue, p)
        /\ proc' = [proc EXCEPT ![p].pc = "inner"]
     \/ /\ proc[p].pc = "inner"
        /\ queue' = SelectSeq(queue, LAMBDA q : q # p)
        /\ proc' = [proc EXCEPT ![p].pc = "settled"]
  /\ locked' = locked
  /\ UNCHANGED <<store, files, ops, order>>
  /\ History

\* fn starts and calls acquire(g): _acquire finds the lock taken, by fn's own
\* caller, and queues the resolver of g; fn awaits the promise of acquire(g)
Reenter(p) ==
  /\ proc[p].op = "reenter"
  /\ proc[p].pc = "granted"
  /\ IF ~locked
       THEN /\ locked' = TRUE
            /\ queue' = queue
            /\ proc' = [proc EXCEPT ![p].pc = "innerGranted"]
       ELSE /\ locked' = locked
            /\ queue' = Append(queue, p)
            /\ proc' = [proc EXCEPT ![p].pc = "inner"]
  /\ UNCHANGED <<store, files, ops, order>>
  /\ History

(***************************************************************************)
(* Collection.insert, Collection.update, Collection.delete                 *)
(***************************************************************************)
\* an insert without the duplicate check
InsertUnchecked(p, pr, cd, h) ==
  LET me == pr[p]
      m2 == MapSet(h[cd[me.c]], me.id, me.doc)
  IN /\ proc' = IssueWrite(pr, p, me.c,
                   [me EXCEPT !.pc = "saveColl", !.wcoll = ObjectFromEntries(m2)])
     /\ heap' = Collect([h EXCEPT ![cd[me.c]] = m2], cd, proc')
     /\ cache' = AddToCache(cache, CacheKey(me.c, me.id), me.doc)

\* insert, from the duplicate check to the start of the collection-file write
InsertBody(p, pr, cd, h) ==
  LET me == pr[p]
      m == h[cd[me.c]]
      m2 == MapSet(m, me.id, me.doc)
  IN IF MapHas(m, me.id)
       THEN /\ proc' = [pr EXCEPT ![p] = [me EXCEPT !.pc = "settled", !.result = "conflict"]]
            /\ heap' = Collect(h, cd, proc')
            /\ cache' = cache
       ELSE /\ proc' = IssueWrite(pr, p, me.c,
                          [me EXCEPT !.pc = "saveColl", !.wcoll = ObjectFromEntries(m2)])
            /\ heap' = Collect([h EXCEPT ![cd[me.c]] = m2], cd, proc')
            /\ cache' = AddToCache(cache, CacheKey(me.c, me.id), me.doc)

\* an update that leaves the cache as it is
UpdateBodyStale(p, pr, cd, h) ==
  LET me == pr[p]
      m2 == MapSet(h[cd[me.c]], me.id, me.doc)
  IN /\ proc' = IssueWrite(pr, p, me.c,
                   [me EXCEPT !.pc = "saveColl", !.wcoll = ObjectFromEntries(m2)])
     /\ heap' = Collect([h EXCEPT ![cd[me.c]] = m2], cd, proc')
     /\ cache' = cache

\* an update that keeps the body of a document that exists
UpdateBodyKeep(p, pr, cd, h) ==
  LET me == pr[p]
      m == h[cd[me.c]]
      m2 == IF MapHas(m, me.id) THEN m ELSE MapSet(m, me.id, me.doc)
  IN /\ proc' = IssueWrite(pr, p, me.c,
                   [me EXCEPT !.pc = "saveColl", !.wcoll = ObjectFromEntries(m2)])
     /\ heap' = Collect([h EXCEPT ![cd[me.c]] = m2], cd, proc')
     /\ cache' = AddToCache(cache, CacheKey(me.c, me.id), me.doc)

\* update, from `collectionData.set` to the start of the collection-file write
UpdateBody(p, pr, cd, h) ==
  LET me == pr[p]
      m2 == MapSet(h[cd[me.c]], me.id, me.doc)
  IN /\ proc' = IssueWrite(pr, p, me.c,
                   [me EXCEPT !.pc = "saveColl", !.wcoll = ObjectFromEntries(m2)])
     /\ heap' = Collect([h EXCEPT ![cd[me.c]] = m2], cd, proc')
     /\ cache' = AddToCache(cache, CacheKey(me.c, me.id), me.doc)

\* fn of insert starts: the collection is in memory, or is first loaded
InsertStart(p) ==
  /\ proc[p].pc = "granted"
  /\ proc[p].op = "insert"
  /\ order' = SelectSeq(order, LAMBDA q : q # p)
  /\ IF collectionData[proc[p].c] = NoRef
       THEN /\ proc' = [proc EXCEPT ![p].pc = "loadColl"]
            /\ UNCHANGED <<heap, cache>>
       ELSE InsertBody(p, proc, collectionData, heap)
  /\ UNCHANGED <<isInitialized, collectionData, collectionFiles, mutex, files, ops>>
  /\ History

\* fn of update starts
UpdateStart(p) ==
  /\ proc[p].pc = "granted"
  /\ proc[p].op = "update"
  /\ order' = SelectSeq(order, LAMBDA q : q # p)
  /\ IF collectionData[proc[p].c] = NoRef
       THEN /\ proc' = [proc EXCEPT ![p].pc = "loadColl"]
            /\ UNCHANGED <<heap, cache>>
       ELSE UpdateBody(p, proc, collectionData, heap)
  /\ UNCHANGED <<isInitialized, collectionData, collectionFiles, mutex, files, ops>>
  /\ History

\* _loadCollection, called by insert and update: the read of the collection
\* file completed.  A missing file gives an empty Map (no path is registered),
\* an unparseable one makes the operation fail.
LoadCollDone(p) ==
  /\ proc[p].pc = "loadColl"
  /\ LET c == proc[p].c
         cd == [collectionData EXCEPT ![c] = NewRef(c)]
     IN \E f \in ReadResults(proc, c) :
          IF f.st = "corrupt"
            THEN /\ proc' = [proc EXCEPT ![p] = [@ EXCEPT !.pc = "settled", !.result = "error"]]
                 /\ UNCHANGED <<collectionData, collectionFiles, heap, cache>>
            ELSE /\ collectionData' = cd
                 /\ collectionFiles' = IF f.st = "ok" THEN collectionFiles \cup {c}
                                                     ELSE collectionFiles
                 /\ IF proc[p].op = "insert"
                      THEN InsertBody(p, proc, cd, [heap EXCEPT ![NewRef(c)] = MapFromObject(f.data)])
                      ELSE UpdateBody(p, proc, cd, [heap EXCEPT ![NewRef(c)] = MapFromObject(f.data)])
  /\ UNCHANGED <<isInitialized, mutex, files, ops, order>>
  /\ History

\* _saveCollection of insert and update: the write landed, the path is
\* registered, and _saveCollectionIndex starts the write of the manifest
SaveCollDone(p) ==
  /\ proc[p].pc = "saveColl"
  /\ \E f \in WriteResults(proc[p]) : disk' = [disk EXCEPT ![proc[p].c] = f]
  /\ collectionFiles' = collectionFiles \cup {proc[p].c}
  /\ LET done == FileOpDone(proc, p, proc[p])
     IN proc' = IssueWrite(done, p, IndexFile,
                   [done[p] EXCEPT !.pc = "saveIndex", !.wlist = collectionFiles'])
  /\ UNCHANGED <<isInitialized, collectionData, heap, cache, mutex, manifest,
                 backupFile, ops, order>>
  /\ History

\* a delete that empties the cache when it finds no document
DeleteStartPurge(p) ==
  /\ proc[p].pc = "granted"
  /\ proc[p].op = "delete"
  /\ order' = SelectSeq(order, LAMBDA q : q # p)
  /\ LET me == proc[p]
         r == collectionData[me.c]
     IN IF r = NoRef \/ ~MapHas(heap[r], me.id)
          THEN /\ proc' = [proc EXCEPT ![p] = [me EXCEPT !.pc = "settled", !.result = "false"]]
               /\ cache' = <<>>
               /\ UNCHANGED heap
          ELSE /\ proc' = IssueWrite(proc, p, me.c,
                             [me EXCEPT !.pc = "deleteSave", !.ref = r,
                                        !.wcoll = ObjectFromEntries(MapDelete(heap[r], me.id))])
               /\ heap' = Collect([heap EXCEPT ![r] = MapDelete(heap[r], me.id)],
                                  collectionData, proc')
               /\ cache' = CacheDelete(cache, CacheKey(me.c, me.id))
  /\ UNCHANGED <<isInitialized, collectionData, collectionFiles, mutex, files, ops>>
  /\ History

\* fn of delete starts: an absent document ends it; else the document leaves
\* the Map and the cache and the collection-file write is started
DeleteStart(p) ==
  /\ proc[p].pc = "granted"
  /\ proc[p].op = "delete"
  /\ order' = SelectSeq(order, LAMBDA q : q # p)
  /\ LET me == proc[p]
         r == collectionData[me.c]
     IN IF r = NoRef \/ ~MapHas(heap[r], me.id)
          THEN /\ proc' = [proc EXCEPT ![p] = [me EXCEPT !.pc = "settled", !.result = "false"]]
               /\ UNCHANGED <<heap, cache>>
          ELSE /\ proc' = IssueWrite(proc, p, me.c,
                             [me EXCEPT !.pc = "deleteSave", !.ref = r,
                                        !.wcoll = ObjectFromEntries(MapDelete(heap[r], me.id))])
               /\ heap' = Collect([heap EXCEPT ![r] = MapDelete(heap[r], me.id)],
                                  collectionData, proc')
               /\ cache' = CacheDelete(cache, CacheKey(me.c, me.id))
  /\ UNCHANGED <<isInitialized, collectionData, collectionFiles, mutex, files, ops>>
  /\ History

\* a delete that keeps an emptied collection
DeleteSaveKept(p) ==
  /\ proc[p].pc = "deleteSave"
  /\ \E f \in WriteResults(proc[p]) : disk' = [disk EXCEPT ![proc[p].c] = f]
  /\ collectionFiles' = collectionFiles \cup {proc[p].c}
  /\ LET done == FileOpDone(proc, p, [proc[p] EXCEPT !.ref = NoRef])
     IN proc' = IssueWrite(done, p, IndexFile,
                   [done[p] EXCEPT !.pc = "saveIndex", !.wlist = collectionFiles'])
  /\ collectionData' = collectionData
  /\ heap' = Collect(heap, collectionData', proc')
  /\ UNCHANGED <<isInitialized, cache, mutex, manifest, backupFile, ops, order>>
  /\ History

\* delete after its _saveCollection: an emptied Map is removed from
\* collectionData and the unlink of its file is started
DeleteSaveDone(p) ==
  /\ proc[p].pc = "deleteSave"
  /\ \E f \in WriteResults(proc[p]) : disk' = [disk EXCEPT ![proc[p].c] = f]
  /\ collectionFiles' = collectionFiles \cup {proc[p].c}
  /\ LET me == proc[p]
         done == FileOpDone(proc, p, [me EXCEPT !.ref = NoRef])
     IN IF Len(heap[me.ref]) = 0
          THEN /\ collectionData' = [collectionData EXCEPT ![me.c] = NoRef]
               /\ proc' = IssueUnlink(ForgetData(done, {me.c}), p, me.c,
                             [done[p] EXCEPT !.pc = "deleteUnlink"])
          ELSE /\ collectionData' = collectionData
               /\ proc' = IssueWrite(done, p, IndexFile,
                             [done[p] EXCEPT !.pc = "saveIndex", !.wlist = collectionFiles'])
  /\ heap' = Collect(heap, collectionData', proc')
  /\ UNCHANGED <<isInitialized, cache, mutex, manifest, backupFile, ops, order>>
  /\ History

\* a delete that keeps the path of the file it unlinked
DeleteUnlinkKept(p) ==
  /\ proc[p].pc = "deleteUnlink"
  /\ disk' = [disk EXCEPT ![proc[p].c] = Absent]
  /\ collectionFiles' = collectionFiles
  /\ LET done == FileOpDone(proc, p, proc[p])
     IN proc' = IssueWrite(done, p, IndexFile,
                   [done[p] EXCEPT !.pc = "saveIndex", !.wlist = collectionFiles'])
  /\ UNCHANGED <<isInitialized, collectionData, heap, cache, mutex, manifest,
                 backupFile, ops, order>>
  /\ History

\* delete: the unlink completed, the path is forgotten and the manifest
\* write is started
DeleteUnlinkDone(p) ==
  /\ proc[p].pc = "deleteUnlink"
  /\ disk' = [disk EXCEPT ![proc[p].c] = Absent]
  /\ collectionFiles' = collectionFiles \ {proc[p].c}
  /\ LET done == ForgetFiles(FileOpDone(proc, p, proc[p]), {proc[p].c})
     IN proc' = IssueWrite(done, p, IndexFile,
                   [done[p] EXCEPT !.pc = "saveIndex", !.wlist = collectionFiles'])
  /\ UNCHANGED <<isInitialized, collectionData, heap, cache, mutex, manifest,
                 backupFile, ops, order>>
  /\ History

\* _saveCollectionIndex of a mutation: the manifest landed and fn returns
SaveIndexDone(p) ==
  /\ proc[p].pc = "saveIndex"
  /\ \E m \in ManifestWriteResults(proc[p]) : manifest' = m
  /\ proc' = FileOpDone(proc, p,
                [proc[p] EXCEPT !.pc = "settled",
                                !.result = IF proc[p].op = "delete" THEN "true" ELSE "ok"])
  /\ UNCHANGED <<store, mutex, disk, backupFile, ops, order>>
  /\ History

\* a failed write that empties the cache
MutationWriteFailedPurge(p) ==
  /\ proc[p].pc \in {"saveColl", "deleteSave", "saveIndex"}
  /\ UNCHANGED <<disk, manifest>>
  /\ proc' = FileOpDone(proc, p, [proc[p] EXCEPT !.pc = "settled", !.ref = NoRef,
                                                !.result = "error"])
  /\ heap' = Collect(heap, collectionData, proc')
  /\ cache' = <<>>
  /\ UNCHANGED <<isInitialized, collectionData, collectionFiles, mutex,
                 backupFile, ops, order>>
  /\ History

\* fs.writeFile of _saveCollection or of _saveCollectionIndex failed inside
\* fn of insert, update or delete: the file is left as it was or cut short,
\* the error leaves fn, and acquire releases the lock and rejects with it
MutationWriteFailed(p) ==
  /\ proc[p].pc \in {"saveColl", "deleteSave", "saveIndex"}
  /\ IF proc[p].pc = "saveIndex"
       THEN /\ \E m \in {manifest, BadManifest} : manifest' = m
            /\ UNCHANGED disk
       ELSE /\ \E f \in {disk[proc[p].c], Corrupt} :
                 disk' = [disk EXCEPT ![proc[p].c] = f]
            /\ UNCHANGED manifest
  /\ proc' = FileOpDone(proc, p, [proc[p] EXCEPT !.pc = "settled", !.ref = NoRef,
                                                !.result = "error"])
  /\ heap' = Collect(heap, collectionData, proc')
  /\ UNCHANGED <<isInitialized, collectionData, collectionFiles, cache, mutex,
                 backupFile, ops, order>>
  /\ History

(***************************************************************************)
(* Collection.findById                                                     *)
(***************************************************************************)
\* a findById that registers a Map for a collection it does not find
FindByIdCreating(p) ==
  /\ proc[p].pc = "entered"
  /\ proc[p].op = "findById"
  /\ LET me == proc[p]
         key == CacheKey(me.c, me.id)
         r == collectionData[me.c]
         cd == [collectionData EXCEPT ![me.c] = NewRef(me.c)]
     IN IF CacheHas(cache, key)
          THEN /\ proc' = [proc EXCEPT ![p] = Finish(me, CacheGet(cache, key))]
               /\ UNCHANGED <<cache, collectionData, heap>>
          ELSE IF r = NoRef
            THEN /\ proc' = [proc EXCEPT ![p] = Finish(me, "null")]
                 /\ cache' = cache
                 /\ collectionData' = cd
                 /\ heap' = Collect([heap EXCEPT ![cd[me.c]] = <<>>], cd, proc')
          ELSE IF ~MapHas(heap[r], me.id)
            THEN /\ proc' = [proc EXCEPT ![p] = Finish(me, "null")]
                 /\ UNCHANGED <<cache, collectionData, heap>>
            ELSE /\ proc' = [proc EXCEPT ![p] = Finish(me, MapGet(heap[r], me.id))]
                 /\ cache' = AddToCache(cache, key, MapGet(heap[r], me.id))
                 /\ UNCHANGED <<collectionData, heap>>
  /\ UNCHANGED <<isInitialized, collectionFiles, mutex, files, ops, order>>
  /\ History

FindById(p) ==
  /\ proc[p].pc = "entered"
  /\ proc[p].op = "findById"
  /\ LET me == proc[p]
         key == CacheKey(me.c, me.id)
         r == collectionData[me.c]
     IN IF CacheHas(cache, key)
          THEN /\ proc' = [proc EXCEPT ![p] = Finish(me, CacheGet(cache, key))]
               /\ cache' = cache
          ELSE IF r = NoRef \/ ~MapHas(heap[r], me.id)
            THEN /\ proc' = [proc EXCEPT ![p] = Finish(me, "null")]
                 /\ cache' = cache
            ELSE /\ proc' = [proc EXCEPT ![p] = Finish(me, MapGet(heap[r], me.id))]
                 /\ cache' = AddToCache(cache, key, MapGet(heap[r], me.id))
  /\ UNCHANGED <<isInitialized, collectionData, heap, collectionFiles, mutex,
                 files, ops, order>>
  /\ History



(***************************************************************************)
(* Collection.find                                                         *)
(***************************************************************************)
\* the loop of find over the Map's entries, from entry i on; in
\* `limit && ...` a missing limit and the limit 0 are both falsy
RECURSIVE FindLoop(_, _, _, _, _)
FindLoop(m, i, skipped, results, o) ==
  IF i > Len(m) THEN results
  ELSE IF skipped < o.skip THEN FindLoop(m, i + 1, skipped + 1, results, o)
  ELSE IF o.limit # Undefined /\ o.limit # 0 /\ Len(results) >= o.limit
    THEN results
  ELSE IF ~o.filter \/ m[i][1] \in o.pass
    THEN FindLoop(m, i + 1, skipped, Append(results, m[i]), o)
  ELSE FindLoop(m, i + 1, skipped, results, o)

Find(m, o) == FindLoop(m, 1, 0, <<>>, o)

CallFind(p, cs, os) ==
  /\ proc[p].pc = "idle"
  /\ ops > 0
  /\ \E c \in cs, o \in os :
       proc' = [proc EXCEPT ![p] = EnsureInitialized(
                  [IdleProc EXCEPT !.op = "find", !.c = c, !.opts = o])]
  /\ ops' = ops - 1
  /\ UNCHANGED <<store, mutex, files, order>>
  /\ History

\* find after _ensureInitialized: a collection that is not in memory gives []
FindDone(p) ==
  /\ proc[p].pc = "entered"
  /\ proc[p].op = "find"
  /\ LET me == proc[p]
         r == collectionData[me.c]
     IN proc' = [proc EXCEPT ![p] =
                   [IdleProc EXCEPT !.op = "find", !.c = me.c, !.opts = me.opts,
                                    !.result = "ok",
                                    !.found = IF r = NoRef THEN <<>>
                                              ELSE Find(heap[r], me.opts)]]
  /\ UNCHANGED <<store, mutex, files, ops, order>>
  /\ History

(***************************************************************************)
(* JSLiteDB.dropCollection                                                 *)
(***************************************************************************)
CallDropCollection(p, cs) ==
  /\ proc[p].pc = "idle"
  /\ ops > 0
  /\ \E c \in cs :
       proc' = [proc EXCEPT ![p] = EnsureInitialized(
                  [IdleProc EXCEPT !.op = "dropCollection", !.c = c])]
  /\ ops' = ops - 1
  /\ UNCHANGED <<store, mutex, files, order>>
  /\ History

\* the cache keys of a collection: `cacheKey.startsWith(`${collectionName}:`)`
PurgeCache(ch, c) == SelectSeq(ch, LAMBDA e : ~StartsWith(e[1], c \o ":"))

\* dropCollection after _ensureInitialized: an unknown collection ends it;
\* else the Map is removed and, if the collection has a path, the unlink of
\* its file is started
DropStart(p) ==
  /\ proc[p].pc = "entered"
  /\ proc[p].op = "dropCollection"
  /\ LET me == proc[p]
         gone == [collectionData EXCEPT ![me.c] = NoRef]
     IN IF collectionData[me.c] = NoRef
          THEN /\ proc' = [proc EXCEPT ![p] = Finish(me, "false")]
               /\ UNCHANGED <<collectionData, heap, cache>>
          ELSE /\ collectionData' = gone
               /\ IF me.c \in collectionFiles
                    THEN /\ proc' = IssueUnlink(ForgetData(proc, {me.c}), p, me.c,
                                       [me EXCEPT !.pc = "dropUnlink"])
                         /\ cache' = cache
                    ELSE /\ proc' = IssueWrite(ForgetData(proc, {me.c}), p, IndexFile,
                                       [me EXCEPT !.pc = "dropSaveIndex",
                                                  !.wlist = collectionFiles])
                         /\ cache' = PurgeCache(cache, me.c)
               /\ heap' = Collect(heap, gone, proc')
  /\ UNCHANGED <<isInitialized, collectionFiles, mutex, files, ops, order>>
  /\ History

\* dropCollection: the unlink completed; the path and the cache entries go
\* and the manifest write is started
DropUnlinkDone(p) ==
  /\ proc[p].pc = "dropUnlink"
  /\ disk' = [disk EXCEPT ![proc[p].c] = Absent]
  /\ collectionFiles' = collectionFiles \ {proc[p].c}
  /\ cache' = PurgeCache(cache, proc[p].c)
  /\ LET done == ForgetFiles(FileOpDone(proc, p, proc[p]), {proc[p].c})
     IN proc' = IssueWrite(done, p, IndexFile,
                   [done[p] EXCEPT !.pc = "dropSaveIndex", !.wlist = collectionFiles'])
  /\ UNCHANGED <<isInitialized, collectionData, heap, mutex, manifest,
                 backupFile, ops, order>>
  /\ History

DropSaveIndexDone(p) ==
  /\ proc[p].pc = "dropSaveIndex"
  /\ \E m \in ManifestWriteResults(proc[p]) : manifest' = m
  /\ proc' = FileOpDone(proc, p, Finish(proc[p], "true"))
  /\ UNCHANGED <<store, mutex, disk, backupFile, ops, order>>
  /\ History

(***************************************************************************)
(* insert, find, findOne and stream in memory, for documents whose own     *)
(* properties are given: a document is the sequence of its <<name, value>> *)
(* pairs, in property order.  The Map of the one collection is heap[1];    *)
(* each call is one step and the files are left out.                       *)
(***************************************************************************)
RECURSIVE AssignFrom(_, _, _)
AssignFrom(obj, document, i) ==
  IF i > Len(document) THEN obj
  ELSE AssignFrom(MapSet(obj, document[i][1], document[i][2]), document, i + 1)

\* `{ id: id, ...document }`: the property id is set first, then every own
\* property of the document is set in its order, one named id as well
WithId(id, document) == AssignFrom(<<<<"id", id>>>>, document, 1)

\* the value of a property of a returned document
Property(obj, name) == MapGet(obj, name)

\* what the call of p returned
BodiedCall(op, id, doc, result, found) ==
  [IdleProc EXCEPT !.op = op, !.c = "u", !.id = id, !.doc = doc,
                   !.result = result, !.found = found]

\* insert(id, document): `collectionData.set(stringId, doc)`, `_addToCache`,
\* `return { id, ...doc }`
BodiedInsert(p, ids, bodies) ==
  /\ proc[p].pc = "idle"
  /\ ops > 0
  /\ \E id \in ids, doc \in bodies :
       IF MapHas(heap[1], id)
         THEN /\ proc' = [proc EXCEPT ![p] = BodiedCall("insert", id, doc, "conflict", <<>>)]
              /\ UNCHANGED <<heap, cache>>
         ELSE /\ proc' = [proc EXCEPT ![p] =
                            BodiedCall("insert", id, doc, "ok", <<WithId(id, doc)>>)]
              /\ heap' = [heap EXCEPT ![1] = MapSet(@, id, doc)]
              /\ cache' = AddToCache(cache, CacheKey("u", id), doc)
  /\ ops' = ops - 1
  /\ UNCHANGED <<isInitialized, collectionData, collectionFiles, mutex, files, order>>
  /\ History

\* find(options), and findOne(filter), which is find({ limit: 1, filter }):
\* `results.push({ id: id, ...document })` for the documents find selects
BodiedFind(p, op, os) ==
  /\ proc[p].pc = "idle"
  /\ ops > 0
  /\ \E o \in os :
       LET selected == Find(heap[1], o)
       IN proc' = [proc EXCEPT ![p] =
                     [BodiedCall(op, "", "", "ok",
                        [i \in 1..Len(selected) |->
                           WithId(selected[i][1], selected[i][2])])
                      EXCEPT !.opts = o]]
  /\ ops' = ops - 1
  /\ UNCHANGED <<store, mutex, files, order>>
  /\ History

\* stream(), read to its end: `yield { id: id, ...document }` for every
\* document of the Map
BodiedStream(p) ==
  /\ proc[p].pc = "idle"
  /\ ops > 0
  /\ proc' = [proc EXCEPT ![p] =
                BodiedCall("stream", "", "", "ok",
                  [i \in 1..Len(heap[1]) |-> WithId(heap[1][i][1], heap[1][i][2])])]
  /\ ops' = ops - 1
  /\ UNCHANGED <<store, mutex, files, order>>
  /\ History

(***************************************************************************)
(* insert, findById and dropCollection in memory, for collection names     *)
(* and ids that may contain the ":" of the cache key.  The Map of the      *)
(* collection names[i] is heap[i]; a collection is in memory when its Map  *)
(* holds a document.  Each call is one step: the files are left out.       *)
(***************************************************************************)
KeyedCall(op, c, id, doc, result) ==
  Finish([IdleProc EXCEPT !.op = op, !.c = c, !.id = id, !.doc = doc], result)

\* insert: `collectionData.has(stringId)`, `collectionData.set(stringId, doc)`,
\* `_addToCache(`${this.name}:${id}`, doc)`
KeyedInsert(p, names, ids) ==
  /\ proc[p].pc = "idle"
  /\ ops > 0
  /\ \E i \in 1..Len(names), id \in ids, doc \in Docs :
       IF MapHas(heap[i], id)
         THEN /\ proc' = [proc EXCEPT ![p] = KeyedCall("insert", names[i], id, doc, "conflict")]
              /\ UNCHANGED <<heap, cache>>
         ELSE /\ proc' = [proc EXCEPT ![p] = KeyedCall("insert", names[i], id, doc, "ok")]
              /\ heap' = [heap EXCEPT ![i] = MapSet(@, id, doc)]
              /\ cache' = AddToCache(cache, CacheKey(names[i], id), doc)
  /\ ops' = ops - 1
  /\ UNCHANGED <<isInitialized, collectionData, collectionFiles, mutex, files, order>>
  /\ History

\* findById: the cached value under `${this.name}:${id}`, else the document
\* of the Map, which is then cached, else null
KeyedFindById(p, names, ids) ==
  /\ proc[p].pc = "idle"
  /\ ops > 0
  /\ \E i \in 1..Len(names), id \in ids :
       LET key == CacheKey(names[i], id)
       IN IF CacheHas(cache, key)
            THEN /\ proc' = [proc EXCEPT ![p] =
                               KeyedCall("findById", names[i], id, "", CacheGet(cache, key))]
                 /\ cache' = cache
            ELSE IF ~MapHas(heap[i], id)
              THEN /\ proc' = [proc EXCEPT ![p] =
                                 KeyedCall("findById", names[i], id, "", "null")]
                   /\ cache' = cache
              ELSE /\ proc' = [proc EXCEPT ![p] =
                                 KeyedCall("findById", names[i], id, "", MapGet(heap[i], id))]
                   /\ cache' = AddToCache(cache, key, MapGet(heap[i], id))
  /\ ops' = ops - 1
  /\ UNCHANGED <<isInitialized, collectionData, heap, collectionFiles, mutex,
                 files, order>>
  /\ History

\* dropCollection: false without the collection, else the Map goes and the
\* cache keys that start with `${collectionName}:` are removed
KeyedDrop(p, names) ==
  /\ proc[p].pc = "idle"
  /\ ops > 0
  /\ \E i \in 1..Len(names) :
       IF heap[i] = <<>>
         THEN /\ proc' = [proc EXCEPT ![p] =
                            KeyedCall("dropCollection", names[i], "", "", "false")]
              /\ UNCHANGED <<heap, cache>>
         ELSE /\ proc' = [proc EXCEPT ![p] =
                            KeyedCall("dropCollection", names[i], "", "", "true")]
              /\ heap' = [heap EXCEPT ![i] = <<>>]
              /\ cache' = PurgeCache(cache, names[i])
  /\ ops' = ops - 1
  /\ UNCHANGED <<isInitialized, collectionData, collectionFiles, mutex, files, order>>
  /\ History

(***************************************************************************)
(* JSLiteDB.clear                                                          *)
(***************************************************************************)
CallClear(p) ==
  /\ proc[p].pc = "idle"
  /\ ops > 0
  /\ proc' = [proc EXCEPT ![p] = EnsureInitialized([IdleProc EXCEPT !.op = "clear"])]
  /\ ops' = ops - 1
  /\ UNCHANGED <<store, mutex, files, order>>
  /\ History

\* `for (const filePath of this.collectionFiles.values())`: the unlink of the
\* next file is started, or after the last one the unlink of the manifest
ClearNext(p, pr) ==
  LET left == collectionFiles \ pr[p].visited
  IN IF left = {}
       THEN proc' = IssueUnlink(pr, p, IndexFile,
                       [pr[p] EXCEPT !.pc = "clearUnlinkIndex", !.cur = ""])
       ELSE \E c \in left :
              proc' = IssueUnlink(pr, p, c,
                         [pr[p] EXCEPT !.pc = "clearUnlink", !.cur = c,
                                       !.visited = @ \cup {c}])

ClearStart(p) ==
  /\ proc[p].pc = "entered"
  /\ proc[p].op = "clear"
  /\ ClearNext(p, proc)
  /\ UNCHANGED <<store, mutex, files, ops, order>>
  /\ History

ClearUnlinkDone(p) ==
  /\ proc[p].pc = "clearUnlink"
  /\ disk' = [disk EXCEPT ![proc[p].cur] = Absent]
  /\ ClearNext(p, FileOpDone(proc, p, proc[p]))
  /\ UNCHANGED <<store, mutex, manifest, backupFile, ops, order>>
  /\ History

\* clear: the manifest is unlinked; both Maps and the cache are cleared
ClearUnlinkIndexDone(p) ==
  /\ proc[p].pc = "clearUnlinkIndex"
  /\ manifest' = NoManifest
  /\ collectionData' = [c \in Colls |-> NoRef]
  /\ collectionFiles' = {}
  /\ cache' = <<>>
  /\ proc' = ForgetData(FileOpDone(proc, p, Finish(proc[p], "true")), Colls)
  /\ heap' = Collect(heap, collectionData', proc')
  /\ UNCHANGED <<isInitialized, mutex, disk, backupFile, ops, order>>
  /\ History

(***************************************************************************)
(* JSLiteDB.init, JSLiteDB.close, JSLiteDB.save, the constructor           *)
(***************************************************************************)
CallInit(p) ==
  /\ proc[p].pc = "idle"
  /\ ops > 0
  /\ proc' = [proc EXCEPT ![p] = EnsureInitialized([IdleProc EXCEPT !.op = "init"])]
  /\ ops' = ops - 1
  /\ UNCHANGED <<store, mutex, files, order>>
  /\ History

InitDone(p) ==
  /\ proc[p].pc = "entered"
  /\ proc[p].op = "init"
  /\ proc' = [proc EXCEPT ![p] = Finish(proc[p], "ok")]
  /\ UNCHANGED <<store, mutex, files, ops, order>>
  /\ History

\* close: an initialized store first writes the manifest; close does not
\* call _ensureInitialized
CallClose(p) ==
  /\ proc[p].pc = "idle"
  /\ ops > 0
  /\ IF isInitialized
       THEN /\ proc' = IssueWrite(proc, p, IndexFile,
                          [IdleProc EXCEPT !.op = "close", !.pc = "closeSaveIndex",
                                           !.wlist = collectionFiles])
            /\ UNCHANGED <<isInitialized, cache>>
       ELSE /\ proc' = [proc EXCEPT ![p] = Finish([IdleProc EXCEPT !.op = "close"], "ok")]
            /\ cache' = <<>>
            /\ isInitialized' = FALSE
  /\ ops' = ops - 1
  /\ UNCHANGED <<collectionData, heap, collectionFiles, mutex, files, order>>
  /\ History

CloseSaveIndexDone(p) ==
  /\ proc[p].pc = "closeSaveIndex"
  /\ \E m \in ManifestWriteResults(proc[p]) : manifest' = m
  /\ cache' = <<>>
  /\ isInitialized' = FALSE
  /\ proc' = FileOpDone(proc, p, Finish(proc[p], "ok"))
  /\ UNCHANGED <<collectionData, heap, collectionFiles, mutex, disk, backupFile,
                 ops, order>>
  /\ History

CallSave(p) ==
  /\ proc[p].pc = "idle"
  /\ ops > 0
  /\ proc' = [proc EXCEPT ![p] = EnsureInitialized([IdleProc EXCEPT !.op = "save"])]
  /\ ops' = ops - 1
  /\ UNCHANGED <<store, mutex, files, order>>
  /\ History

\* `for (const collectionName of this.collectionData.keys())`: _saveCollection
\* of the next collection starts its write, or after the last one
\* _saveCollectionIndex starts the write of the manifest
SaveNext(p, pr, cf) ==
  LET left == {c \in Colls : collectionData[c] # NoRef} \ pr[p].visited
  IN IF left = {}
       THEN proc' = IssueWrite(pr, p, IndexFile,
                       [pr[p] EXCEPT !.pc = "saveAllIndex", !.cur = "", !.wlist = cf])
       ELSE \E c \in left :
              proc' = IssueWrite(pr, p, c,
                         [pr[p] EXCEPT !.pc = "saveAllColl", !.cur = c,
                                       !.visited = @ \cup {c},
                                       !.wcoll = ObjectFromEntries(heap[collectionData[c]])])

SaveStart(p) ==
  /\ proc[p].pc = "entered"
  /\ proc[p].op = "save"
  /\ SaveNext(p, proc, collectionFiles)
  /\ UNCHANGED <<store, mutex, files, ops, order>>
  /\ History

SaveAllCollDone(p) ==
  /\ proc[p].pc = "saveAllColl"
  /\ \E f \in WriteResults(proc[p]) : disk' = [disk EXCEPT ![proc[p].cur] = f]
  /\ collectionFiles' = collectionFiles \cup {proc[p].cur}
  /\ SaveNext(p, FileOpDone(proc, p, proc[p]), collectionFiles')
  /\ UNCHANGED <<isInitialized, collectionData, heap, cache, mutex, manifest,
                 backupFile, ops, order>>
  /\ History

SaveAllIndexDone(p) ==
  /\ proc[p].pc = "saveAllIndex"
  /\ \E m \in ManifestWriteResults(proc[p]) : manifest' = m
  /\ proc' = FileOpDone(proc, p, Finish(proc[p], "ok"))
  /\ UNCHANGED <<store, mutex, disk, backupFile, ops, order>>
  /\ History

\* `new JSLiteDB({folderPath})` on the same folder once the previous instance
\* is at rest: every field is as the constructor leaves it, the files stay
Construct ==
  /\ \A p \in Procs : proc[p].pc = "idle"
  /\ ops > 0
  /\ ~Fresh
  /\ isInitialized' = FALSE
  /\ collectionData' = [c \in Colls |-> NoRef]
  /\ heap' = [r \in Refs |-> <<>>]
  /\ collectionFiles' = {}
  /\ cache' = <<>>
  /\ locked' = FALSE
  /\ queue' = <<>>
  /\ order' = <<>>
  /\ proc' = [p \in Procs |-> IdleProc]
  /\ ops' = ops - 1
  /\ quiet' = [p \in Procs |-> TRUE]
  /\ emptied' = [p \in Procs |-> FALSE]
  /\ lastAck' = NoAck
  /\ inserted' = Untracked
  /\ observed' = [observed EXCEPT !.known = FALSE, !.view = NoBackup]
  /\ emitted' = [emitted EXCEPT !.last = <<>>, !.n = [p \in Procs |-> 0]]
  /\ UNCHANGED files

(***************************************************************************)
(* JSLiteDB.backup, JSLiteDB.restore                                       *)
(***************************************************************************)
CallBackup(p) ==
  /\ proc[p].pc = "idle"
  /\ ops > 0
  /\ proc' = [proc EXCEPT ![p] = EnsureInitialized([IdleProc EXCEPT !.op = "backup"])]
  /\ ops' = ops - 1
  /\ UNCHANGED <<store, mutex, files, order>>
  /\ History

\* backup after _ensureInitialized: every collection is exported and the
\* write of the backup file is started
BackupStart(p) ==
  /\ proc[p].pc = "entered"
  /\ proc[p].op = "backup"
  /\ proc' = IssueWrite(proc, p, BackupPath,
                [proc[p] EXCEPT !.pc = "backupWrite",
                   !.wbak = [c \in Colls |->
                               IF collectionData[c] = NoRef THEN Absent
                               ELSE File(ObjectFromEntries(heap[collectionData[c]]))]])
  /\ UNCHANGED <<store, mutex, files, ops, order>>
  /\ History

BackupWriteDone(p) ==
  /\ proc[p].pc = "backupWrite"
  /\ \E b \in BackupWriteResults(proc[p]) : backupFile' = b
  /\ proc' = FileOpDone(proc, p, Finish(proc[p], "ok"))
  /\ UNCHANGED <<store, mutex, disk, manifest, ops, order>>
  /\ History

\* restore up to its first await: the two outer Maps are copied and the read
\* of the backup file is started
CallRestore(p) ==
  /\ proc[p].pc = "idle"
  /\ ops > 0
  /\ proc' = [proc EXCEPT ![p] =
                [IdleProc EXCEPT !.op = "restore", !.pc = "restoreRead",
                                 !.old = [data |-> collectionData,
                                          files |-> collectionFiles]]]
  /\ ops' = ops - 1
  /\ UNCHANGED <<store, mutex, files, order>>
  /\ History

\* restore: the backup was read.  A missing or unparseable file takes the
\* catch block, which puts the copied Maps back; else _ensureInitialized
RestoreReadDone(p) ==
  /\ proc[p].pc = "restoreRead"
  /\ \E b \in {backupFile} \cup (IF Writers(proc, BackupPath) # {}
                                   THEN {BadBackupFile} ELSE {}) :
       IF b.st = "ok"
         THEN /\ proc' = [proc EXCEPT ![p] = EnsureInitialized([@ EXCEPT !.bak = b.data])]
              /\ UNCHANGED <<collectionData, collectionFiles, heap>>
         ELSE /\ collectionData' = proc[p].old.data
              /\ collectionFiles' = proc[p].old.files
              /\ proc' = [ForgetData(ForgetFiles(proc, Colls), Colls)
                            EXCEPT ![p] = Finish(proc[p], "error")]
              /\ heap' = Collect(heap, collectionData', proc')
  /\ UNCHANGED <<isInitialized, cache, mutex, files, ops, order>>
  /\ History

\* restore, the loop over Object.entries(backupData.collections): the next
\* collection gets a new Map and _saveCollection starts its write; after the
\* last one _saveCollectionIndex starts the write of the manifest
RestoreNext(p, pr, cd, cf, h) ==
  LET left == pr[p].todo
  IN IF left = {}
       THEN /\ proc' = IssueWrite(pr, p, IndexFile,
                          [pr[p] EXCEPT !.pc = "restoreSaveIndex", !.cur = "", !.wlist = cf])
            /\ collectionData' = cd
            /\ heap' = Collect(h, cd, proc')
       ELSE \E c \in left :
              LET r == NewRefIn(c, cd, pr)
                  m == MapFromObject(pr[p].bak[c].data)
              IN /\ proc' = IssueWrite(pr, p, c,
                               [pr[p] EXCEPT !.pc = "restoreSave", !.cur = c,
                                             !.todo = left \ {c},
                                             !.wcoll = ObjectFromEntries(m)])
                 /\ collectionData' = [cd EXCEPT ![c] = r]
                 /\ heap' = Collect([h EXCEPT ![r] = m], collectionData', proc')

\* a restore that keeps the collections in memory
RestoreStartKept(p) ==
  /\ proc[p].pc = "entered"
  /\ proc[p].op = "restore"
  /\ collectionFiles' = {}
  /\ cache' = <<>>
  /\ LET me == [proc[p] EXCEPT !.todo = {c \in Colls : proc[p].bak[c].st = "ok"}]
         pr == [ForgetFiles(proc, Colls) EXCEPT ![p] = me]
     IN RestoreNext(p, pr, collectionData, {}, heap)
  /\ UNCHANGED <<isInitialized, mutex, files, ops, order>>
  /\ History

\* restore after _ensureInitialized: both Maps and the cache are cleared
RestoreStart(p) ==
  /\ proc[p].pc = "entered"
  /\ proc[p].op = "restore"
  /\ collectionFiles' = {}
  /\ cache' = <<>>
  /\ LET me == [proc[p] EXCEPT !.todo = {c \in Colls : proc[p].bak[c].st = "ok"}]
         pr == [ForgetData(ForgetFiles(proc, Colls), Colls) EXCEPT ![p] = me]
     IN RestoreNext(p, pr, [c \in Colls |-> NoRef], {}, heap)
  /\ UNCHANGED <<isInitialized, mutex, files, ops, order>>
  /\ History

RestoreSaveDone(p) ==
  /\ proc[p].pc = "restoreSave"
  /\ \E f \in WriteResults(proc[p]) : disk' = [disk EXCEPT ![proc[p].cur] = f]
  /\ collectionFiles' = collectionFiles \cup {proc[p].cur}
  /\ RestoreNext(p, FileOpDone(proc, p, proc[p]), collectionData, collectionFiles', heap)
  /\ UNCHANGED <<isInitialized, cache, mutex, manifest, backupFile, ops, order>>
  /\ History

RestoreSaveIndexDone(p) ==
  /\ proc[p].pc = "restoreSaveIndex"
  /\ \E m \in ManifestWriteResults(proc[p]) : manifest' = m
  /\ proc' = FileOpDone(proc, p, Finish(proc[p], "ok"))
  /\ heap' = Collect(heap, collectionData, proc')
  /\ UNCHANGED <<isInitialized, collectionData, collectionFiles, cache, mutex,
                 disk, backupFile, ops, order>>
  /\ History

\* restore: fs.writeFile of a collection file or of the manifest failed.  The
\* file is left as it was or cut short; the catch block puts the copied Maps
\* back and restore rejects
RestoreWriteFailed(p) ==
  /\ proc[p].pc \in {"restoreSave", "restoreSaveIndex"}
  /\ IF proc[p].pc = "restoreSave"
       THEN /\ \E f \in {disk[proc[p].cur], Corrupt} :
                 disk' = [disk EXCEPT ![proc[p].cur] = f]
            /\ UNCHANGED manifest
       ELSE /\ \E m \in {manifest, BadManifest} : manifest' = m
            /\ UNCHANGED disk
  /\ collectionData' = proc[p].old.data
  /\ collectionFiles' = proc[p].old.files
  /\ proc' = FileOpDone(ForgetData(ForgetFiles(proc, Colls), Colls), p,
                        Finish(proc[p], "error"))
  /\ heap' = Collect(heap, collectionData', proc')
  /\ UNCHANGED <<isInitialized, cache, mutex, backupFile, ops, order>>
  /\ History


(***************************************************************************)
(* Specifications                                                          *)
(***************************************************************************)
\* the steps of the bootstrap
Bootstrap(p) ==
  \/ ReadIndexDone(p) \/ LoadIndexedDone(p) \/ ReaddirDone(p)
  \/ ScanLoadDone(p) \/ BootSaveIndexDone(p)

\* the steps of insert, update and delete
Mutation(p) ==
  \/ Acquire(p) \/ Release(p)
  \/ InsertStart(p) \/ UpdateStart(p) \/ LoadCollDone(p) \/ SaveCollDone(p)
  \/ DeleteStart(p) \/ DeleteSaveDone(p) \/ DeleteUnlinkDone(p)
  \/ SaveIndexDone(p)

\* the steps of the operations that do not take the WriteMutex
Unserialized(p) ==
  \/ DropStart(p) \/ DropUnlinkDone(p) \/ DropSaveIndexDone(p)
  \/ ClearStart(p) \/ ClearUnlinkDone(p) \/ ClearUnlinkIndexDone(p)
  \/ InitDone(p) \/ CloseSaveIndexDone(p)
  \/ SaveStart(p) \/ SaveAllCollDone(p) \/ SaveAllIndexDone(p)
  \/ BackupStart(p) \/ BackupWriteDone(p)
  \/ RestoreReadDone(p) \/ RestoreStart(p) \/ RestoreSaveDone(p)
  \/ RestoreSaveIndexDone(p)

\* two callers, one collection, every public operation
Callers == 1..NumCallers
OneColl == {"u"}
OneId == {"a"}

Next ==
  \/ \E p \in Callers :
       \/ CallInsert(p, OneColl, Ids) \/ CallUpdate(p, OneColl, Ids)
       \/ CallDelete(p, OneColl, Ids) \/ CallFindById(p, OneColl, Ids)
       \/ CallDropCollection(p, OneColl)
       \/ CallClear(p) \/ CallInit(p) \/ CallClose(p) \/ CallSave(p)
       \/ CallBackup(p) \/ CallRestore(p)
       \/ Bootstrap(p) \/ Mutation(p) \/ FindById(p) \/ Unserialized(p)
  \/ Construct

Spec == Init /\ [][Next]_vars

\* one caller, two collections, every public operation: the calls follow
\* one another; the instance starts on an empty folder or on a used one
InitSeq ==
  /\ Constructed
  /\ EmptyFolder \/ UsedFolder \/ UnlistedFolder \/ BrokenFolder
  /\ ops = MaxSeqOps
  /\ inserted = Untracked
  /\ observed = [on |-> FALSE, known |-> FALSE, view |-> NoBackup]
  /\ emitted = [on |-> FALSE, last |-> <<>>, n |-> [p \in Procs |-> 0]]

NextSeq ==
  \/ CallInsert(1, Colls, Ids) \/ CallUpdate(1, Colls, Ids)
  \/ CallDelete(1, Colls, Ids) \/ CallFindById(1, Colls, Ids)
  \/ CallDropCollection(1, Colls)
  \/ CallClear(1) \/ CallInit(1) \/ CallClose(1) \/ CallSave(1)
  \/ CallBackup(1) \/ CallRestore(1)
  \/ Bootstrap(1) \/ Mutation(1) \/ FindById(1) \/ Unserialized(1)
  \/ Construct

SpecSeq == InitSeq /\ [][NextSeq]_vars

\* two callers whose calls follow one another: the first gives the number 1
\* as the id, the second gives strings, "1" among them
NextCross ==
  \/ Quiescent /\ CallNumeric(1, OneColl, {1})
  \/ Quiescent /\ CallInsert(2, OneColl, Ids)
  \/ Quiescent /\ CallUpdate(2, OneColl, Ids)
  \/ Quiescent /\ CallDelete(2, OneColl, Ids)
  \/ Quiescent /\ CallFindById(2, OneColl, Ids)
  \/ \E p \in Callers : Bootstrap(p) \/ Mutation(p) \/ FindById(p)

SpecCross == InitSeq /\ [][NextCross]_vars

\* the sequential calls, with writes of restore that may fail; what the
\* store held before a restore and the events emitted are recorded
InitRollback ==
  /\ Constructed
  /\ EmptyFolder \/ UsedFolder \/ UnlistedFolder
  /\ ops = MaxSeqOps
  /\ inserted = [on |-> FALSE, seq |-> <<>>]
  /\ observed = [on |-> TRUE, known |-> FALSE, view |-> NoBackup]
  /\ emitted = [on |-> TRUE, last |-> <<>>, n |-> [p \in Procs |-> 0]]

NextRollback == NextSeq \/ RestoreWriteFailed(1)

SpecRollback == InitRollback /\ [][NextRollback]_vars

\* one caller of insert, update, delete and findById, each call awaited, and
\* new instances on the folder
NextPersist ==
  \/ CallInsert(1, Colls, Ids) \/ CallUpdate(1, Colls, Ids)
  \/ CallDelete(1, Colls, Ids) \/ CallFindById(1, Colls, Ids)
  \/ Bootstrap(1) \/ Mutation(1) \/ FindById(1)
  \/ Construct

SpecPersist == InitSeq /\ [][NextPersist]_vars

\* one caller of insert, update, delete and findById on one collection, each
\* call awaited, with writes that may fail; the events emitted are recorded
NextFailure ==
  \/ CallInsert(1, OneColl, Ids) \/ CallUpdate(1, OneColl, Ids)
  \/ CallDelete(1, OneColl, Ids) \/ CallFindById(1, OneColl, Ids)
  \/ Bootstrap(1) \/ Mutation(1) \/ FindById(1)
  \/ MutationWriteFailed(1)

SpecFailure == InitRollback /\ [][NextFailure]_vars

\* three callers of insert, update and delete on one collection
InitMutex ==
  /\ Constructed
  /\ EmptyFolder
  /\ ops = MaxMutexOps
  /\ inserted = Untracked
  /\ observed = [on |-> FALSE, known |-> FALSE, view |-> NoBackup]
  /\ emitted = [on |-> FALSE, last |-> <<>>, n |-> [p \in Procs |-> 0]]

NextMutex ==
  \E p \in Procs :
    \/ CallInsert(p, OneColl, OneId) \/ CallUpdate(p, OneColl, OneId)
    \/ CallDelete(p, OneColl, OneId)
    \/ Bootstrap(p) \/ Mutation(p)

SpecMutex == InitMutex /\ [][NextMutex]_vars

\* a caller of insert, one of update and one of delete, when every step that
\* is enabled is taken in the end: every fs promise settles and every
\* continuation is run
NextFair ==
  \/ CallInsert(1, OneColl, OneId)
  \/ CallUpdate(2, OneColl, OneId)
  \/ CallDelete(3, OneColl, OneId)
  \/ \E p \in Procs : Bootstrap(p) \/ Mutation(p)

SpecFair ==
  /\ InitMutex
  /\ [][NextFair]_vars
  /\ \A p \in Procs : WF_vars(Bootstrap(p) \/ Mutation(p))

\* the three callers, each of which may also call acquire with a reentrant fn
NextReenter ==
  \/ NextMutex
  \/ \E p \in Procs : CallReenter(p) \/ Reenter(p)

SpecReenter == InitMutex /\ [][NextReenter]_vars

\* a caller of findById, find and findOne and a caller of insert, on a new
\* instance
NextRead ==
  \/ CallFindById(1, Colls, Ids)
  \/ CallFind(1, Colls, {NoOptions, [NoOptions EXCEPT !.limit = 1]})
  \/ CallInsert(2, OneColl, Ids)
  \/ \E p \in Callers :
       \/ Bootstrap(p) \/ FindById(p) \/ FindDone(p)
       \/ Acquire(p) \/ Release(p) \/ InsertStart(p) \/ LoadCollDone(p)
       \/ SaveCollDone(p) \/ SaveIndexDone(p)

SpecRead == InitSeq /\ [][NextRead]_vars

\* one caller of insert, findById and dropCollection on the collections "u"
\* and "u:v", with the ids "a" and "v:a"
KeyNames == <<"u", "u:v">>
KeyIds == {"a", "v:a"}

NextKeyed ==
  \/ KeyedInsert(1, KeyNames, KeyIds)
  \/ KeyedFindById(1, KeyNames, KeyIds)
  \/ KeyedDrop(1, KeyNames)

SpecKeyed == InitMutex /\ [][NextKeyed]_vars

\* one caller of insert, find, findOne and stream; some of the documents
\* have a property named id
Bodies ==
  { <<<<"n", "1">>>>,
    <<<<"id", "z">>, <<"n", "1">>>>,
    <<<<"n", "2">>, <<"id", "a">>>> }

NextBodied ==
  \/ BodiedInsert(1, Ids, Bodies)
  \/ BodiedFind(1, "find", {NoOptions, [NoOptions EXCEPT !.skip = 1]})
  \/ BodiedFind(1, "findOne", {[NoOptions EXCEPT !.limit = 1]})
  \/ BodiedStream(1)

SpecBodied == InitMutex /\ [][NextBodied]_vars

\* two callers of insert, update and delete, with writes that may fail
NextThrow ==
  \E p \in Callers :
    \/ CallInsert(p, OneColl, OneId) \/ CallUpdate(p, OneColl, OneId)
    \/ CallDelete(p, OneColl, OneId)
    \/ Bootstrap(p) \/ Mutation(p)
    \/ MutationWriteFailed(p)

SpecThrow == InitMutex /\ [][NextThrow]_vars

\* a new instance on an empty folder or on a used one; the callers insert
\* into "u"
MoreIds == Ids \cup {"b"}

InitReopen ==
  /\ Constructed
  /\ EmptyFolder \/ UsedFolder
  /\ ops = NumCallers
  /\ inserted = Untracked
  /\ observed = [on |-> FALSE, known |-> FALSE, view |-> NoBackup]
  /\ emitted = [on |-> FALSE, last |-> <<>>, n |-> [p \in Procs |-> 0]]

NextReopen ==
  \E p \in Callers :
    \/ CallInsert(p, OneColl, MoreIds)
    \/ Bootstrap(p)
    \/ Acquire(p) \/ Release(p) \/ InsertStart(p) \/ LoadCollDone(p)
    \/ SaveCollDone(p) \/ SaveIndexDone(p)

SpecReopen == InitReopen /\ [][NextReopen]_vars

\* one caller of insert and find on one collection of a new store; the
\* inserted documents are recorded
FindIds == {"b", "a", "1"}

FindOptions ==
  {o \in [skip : 0..MaxSkip, limit : {Undefined} \cup 0..MaxLimit,
          filter : BOOLEAN, pass : SUBSET FindIds] : o.filter \/ o.pass = {}}

InitFind ==
  /\ Constructed
  /\ EmptyFolder
  /\ ops = MaxFindOps
  /\ inserted = Tracked
  /\ observed = [on |-> FALSE, known |-> FALSE, view |-> NoBackup]
  /\ emitted = [on |-> FALSE, last |-> <<>>, n |-> [p \in Procs |-> 0]]

NextFind ==
  \/ CallInsert(1, OneColl, FindIds) \/ CallFind(1, OneColl, FindOptions)
  \/ ReadIndexDone(1) \/ ReaddirDone(1) \/ BootSaveIndexDone(1)
  \/ Acquire(1) \/ Release(1) \/ InsertStart(1) \/ LoadCollDone(1)
  \/ SaveCollDone(1) \/ SaveIndexDone(1)
  \/ FindDone(1)

SpecFind == InitFind /\ [][NextFind]_vars

\* two callers of insert, delete, findById and dropCollection on one document
InitDrop ==
  /\ Constructed
  /\ EmptyFolder
  /\ ops = MaxDropOps
  /\ inserted = Untracked
  /\ observed = [on |-> FALSE, known |-> FALSE, view |-> NoBackup]
  /\ emitted = [on |-> FALSE, last |-> <<>>, n |-> [p \in Procs |-> 0]]

NextDrop ==
  \E p \in Callers :
    \/ CallInsert(p, OneColl, OneId) \/ CallDelete(p, OneColl, OneId)
    \/ CallFindById(p, OneColl, OneId) \/ CallDropCollection(p, OneColl)
    \/ Bootstrap(p)
    \/ Acquire(p) \/ Release(p) \/ InsertStart(p) \/ LoadCollDone(p)
    \/ SaveCollDone(p) \/ DeleteStart(p) \/ DeleteSaveDone(p)
    \/ DeleteUnlinkDone(p) \/ SaveIndexDone(p)
    \/ FindById(p)
    \/ DropStart(p) \/ DropUnlinkDone(p) \/ DropSaveIndexDone(p)

SpecDrop == InitDrop /\ [][NextDrop]_vars

(***************************************************************************)
(* Properties of the WriteMutex                                            *)
(***************************************************************************)
\* the caller holds the lock: from the grant to the release
HoldPcs == {"granted", "loadColl", "saveColl", "deleteSave", "deleteUnlink",
            "saveIndex", "settled"}

\* fn of the caller is executing: started, its promise not settled
FnPcs == {"loadColl", "saveColl", "deleteSave", "deleteUnlink", "saveIndex"}

\* C1: at most one caller of acquire(fn) is between the grant of the lock
\* and its release at any moment, so at most one fn is executing (between
\* its start and the settlement of its promise), whatever the number of
\* concurrent callers
MutualExclusion ==
  \A p, q \in Procs :
    (p # q /\ proc[p].pc \in HoldPcs) => proc[q].pc \notin HoldPcs

\* a fn is executing while another caller waits in the queue
ExecutingWhileAnotherWaits ==
  \E p, q \in Procs : proc[p].pc \in FnPcs /\ proc[q].pc = "waiting"

\* C2: the lock is granted in the order of the calls of _acquire: the
\* caller whose fn starts is the earliest caller whose fn has not started,
\* also when a caller arrived during a hand-off
FifoGrant ==
  [][\A p \in Procs :
       (proc[p].pc = "granted" /\ proc'[p].pc # "granted") => Head(order) = p]_vars

\* two callers wait in the queue behind the holder
TwoWaiters == Len(queue) = 2

\* what insert, update and delete change
effects == <<collectionData, heap, cache, collectionFiles, disk, manifest>>

\* a write or unlink of a mutation (not of its bootstrap) is in flight
MutationFileOp(r) ==
  r.op \in Mutations /\ r.pc \notin BootPcs /\ r.wkind # "none"

\* C5: every step of an insert, update or delete that changes a Map, the
\* cache, a collection file or the manifest, or starts a file operation, is
\* taken while its caller holds the lock, the lock stays held after it, and
\* no other mutation holds the lock or has a file operation in flight: the
\* disk writes of two mutations never interleave
MutationInsideLock ==
  [][\A p \in Procs :
       (/\ proc[p].op \in Mutations
        /\ proc[p].pc \notin BootPcs \cup {"idle"}
        /\ proc'[p].pc # proc[p].pc
        /\ effects' # effects \/ proc'[p].wkind # "none")
       => /\ locked /\ locked'
          /\ proc[p].pc \in HoldPcs
          /\ \A q \in Procs \ {p} :
               proc[q].pc \notin HoldPcs /\ ~MutationFileOp(proc[q])]_vars

\* the manifest write of a mutation is in flight while another mutation
\* waits for the lock
ManifestWriteWhileAnotherWaits ==
  \E p, q \in Procs :
    /\ proc[p].pc = "saveIndex" /\ proc[p].wkind = "write"
    /\ proc[q].pc = "waiting"

(***************************************************************************)
(* Properties of insert, update, delete and findById                       *)
(***************************************************************************)
\* the collection is in memory and holds a document under the id
Stored(c, id) ==
  collectionData[c] # NoRef /\ MapHas(heap[collectionData[c]], id)

\* C3: an insert whose fn starts while the collection holds a document
\* under its id (an earlier insert succeeded and the document is still
\* there) fails with the duplicate error, and neither that step nor the
\* return of the error changes a Map, the cache, a collection file or the
\* manifest, whatever else is in flight
DuplicateRejected ==
  [][\A p \in Procs :
       (proc[p].op = "insert" /\ proc'[p].pc # proc[p].pc) =>
         /\ (proc[p].pc = "granted" /\ Stored(proc[p].c, proc[p].id)) =>
               /\ proc'[p].pc = "settled"
               /\ proc'[p].result = "conflict"
               /\ effects' = effects
         /\ (proc[p].pc = "settled" /\ proc[p].result = "conflict") =>
               /\ proc'[p].pc = "idle"
               /\ proc'[p].result = "conflict"
               /\ effects' = effects]_vars

\* an insert was rejected as a duplicate of a document still in memory
DuplicateSeen ==
  \E p \in Procs :
    /\ proc[p].op = "insert" /\ proc[p].pc = "idle" /\ proc[p].result = "conflict"
    /\ Stored(proc[p].c, proc[p].id)

\* the collection file holds a document under the id
OnDisk(c, id) == disk[c].st = "ok" /\ MapHas(disk[c].data, id)

\* C4: once the inserts of all callers, with distinct ids into one
\* collection, have returned successfully and the store is at rest, the
\* collection holds every inserted document, in memory and in its file; the
\* callers may have started on a freshly constructed store
ConcurrentInsertsKept ==
  (/\ Quiescent
   /\ \A p \in Callers : proc[p].op = "insert" /\ proc[p].result = "ok"
   /\ \A p, q \in Callers : p # q => proc[p].id # proc[q].id)
  => \A p \in Callers : Stored(proc[p].c, proc[p].id) /\ OnDisk(proc[p].c, proc[p].id)

\* C6: no two writes or unlinks of one file are in flight at the same time,
\* whichever public operations run concurrently (the claim: every write or
\* unlink of insert, update, delete, save, dropCollection, clear, restore,
\* close and the bootstrap is made under the WriteMutex, so none overlap)
NoTwoFileOpsOnOneFile ==
  \A p, q \in Procs :
    (p # q /\ proc[p].wkind # "none" /\ proc[q].wkind # "none")
      => proc[p].wfile # proc[q].wfile

\* C7: no stale read: the next findById(id) after an update(id, newBody)
\* returned successfully yields newBody, and the next findById(id) after a
\* delete(id) returned true yields null, whatever the cache held before the
\* update or delete ("next": the Maps in memory are as they were when the
\* update or delete returned; the update or delete was not overlapped by a
\* bootstrap or by an operation that does not take the WriteMutex)
ReadsSeeLastWrite ==
  [][\A p \in Procs : Read(p) => proc'[p].result = lastAck.doc]_vars

\* a findById returned after an update of its document returned
ReadAfterUpdate == lastAck.seen /\ lastAck.doc \in Docs

\* C8: every cache entry is a document of a collection in memory: its key
\* is "collection:id" of a document the collection's Map holds, and its
\* value is that document
CacheSubset ==
  \A i \in 1..Len(cache) :
    \E c \in Colls, id \in MoreIds :
      /\ cache[i][1] = CacheKey(c, id)
      /\ Stored(c, id)
      /\ cache[i][2] = MapGet(heap[collectionData[c]], id)

\* a delete took the last document of its collection and is about to return
\* true, and no bootstrap or operation outside the WriteMutex overlapped it
LastDocumentDeleted(p) ==
  /\ proc[p].op = "delete"
  /\ proc[p].pc = "settled"
  /\ proc[p].result = "true"
  /\ emptied[p]
  /\ quiet[p]

ManifestListsFiles ==
  (Quiescent /\ isInitialized) =>
    /\ manifest.st # "corrupt"
    /\ manifest.data = {c \in Colls : disk[c].st # "absent"}

(***************************************************************************)
(* Properties of the stored collections                                    *)
(***************************************************************************)
\* the collection is in memory with no document
EmptyInMemory(c) == collectionData[c] # NoRef /\ Len(heap[collectionData[c]]) = 0

\* the collection file exists and holds no document
EmptyOnDisk(c) == disk[c] = File(<<>>)

UpdateStored(p) ==
  LET me == proc[p] IN
  /\ Stored(me.c, me.id)
  /\ MapGet(heap[collectionData[me.c]], me.id) = me.doc
  /\ disk[me.c] = File(ObjectFromEntries(heap[collectionData[me.c]]))
  /\ me.c \in collectionFiles
  /\ manifest = [st |-> "ok", data |-> collectionFiles]

\* C12: update is an idempotent upsert.  An update returns successfully,
\* whether or not the id was present, and the body stored under the id is then
\* exactly the body given, in the Map and in the collection file; and an
\* update applied to a store that already holds its body as an update leaves
\* it changes no Map, no collection file and not the manifest (the update
\* was not overlapped by a bootstrap or by an operation that does not take
\* the WriteMutex)
UpsertIdempotent ==
  [][\A p \in Procs :
       (proc[p].op = "update" /\ proc'[p] # proc[p] /\ quiet[p]) =>
         /\ proc[p].pc = "settled" => proc[p].result = "ok" /\ UpdateStored(p)
         /\ (proc[p].pc \notin BootPcs \cup {"idle"} /\ UpdateStored(p)) =>
               /\ View(collectionData', heap') = View(collectionData, heap)
               /\ disk' = disk
               /\ manifest' = manifest
               /\ collectionFiles' = collectionFiles]_vars

\* an update is writing the collection file of a store that already holds
\* its body
UpdateRepeated ==
  \E p \in Procs :
    /\ proc[p].op = "update" /\ proc[p].pc = "saveColl"
    /\ disk[proc[p].c] = File(proc[p].wcoll)
    /\ UpdateStored(p)

(***************************************************************************)
(* Properties of find                                                      *)
(***************************************************************************)
\* C13: after any sequence of inserts into a collection, find() with no
\* options returns the documents in the order in which they were inserted
InsertionOrder ==
  [][\A p \in Procs :
       (/\ proc[p].op = "find" /\ proc[p].pc = "entered" /\ proc'[p].pc = "idle"
        /\ proc[p].opts = NoOptions
        /\ inserted.on)
       => LET mine == SelectSeq(inserted.seq, LAMBDA e : e[1] = proc[p].c)
          IN proc'[p].found = [i \in 1..Len(mine) |-> <<mine[i][2], mine[i][3]>>]]_vars

\* find() returned "a" before "1": the order of the inserts, which is neither
\* the lexical order of the ids nor the order of the collection file
FoundOutOfIdOrder ==
  \E p \in Procs :
    /\ proc[p].op = "find" /\ proc[p].pc = "idle" /\ proc[p].opts = NoOptions
    /\ Len(proc[p].found) = 3
    /\ proc[p].found[1][1] = "b"
    /\ proc[p].found[2][1] = "a"
    /\ proc[p].found[3][1] = "1"

\* C14: find({skip: s, limit: l, filter: f}) passes over the first s entries
\* of the collection whatever f says of them, and returns, in order, the
\* first l of the remaining entries that satisfy f, all of them when fewer
\* than l do
SkipLimitFilter ==
  [][\A p \in Procs :
       (/\ proc[p].op = "find" /\ proc[p].pc = "entered" /\ proc'[p].pc = "idle"
        /\ proc[p].opts.limit # Undefined
        /\ collectionData[proc[p].c] # NoRef)
       => LET o == proc[p].opts
              m == heap[collectionData[proc[p].c]]
              rest == SubSeq(m, o.skip + 1, Len(m))
              pass == SelectSeq(rest, LAMBDA e : ~o.filter \/ e[1] \in o.pass)
          IN proc'[p].found =
               SubSeq(pass, 1, IF Len(pass) < o.limit THEN Len(pass) ELSE o.limit)]_vars

(***************************************************************************)
(* Properties of what a later instance finds                               *)
(***************************************************************************)
\* C15: after any sequence of successful inserts, updates and deletes, a new
\* instance on the same folder holds, once bootstrapped, the same documents
\* under the same ids in the same collections as the first instance held
\* (the order of the documents aside). In two halves: the instance at rest
\* holds what the manifest and the collection files hold, and the bootstrap
\* of an instance loads what the manifest and the collection files hold
PersistenceRoundTrip ==
  /\ [](Quiescent /\ isInitialized =>
         /\ manifest.st = "ok"
         /\ \A c \in Colls :
              IF collectionData[c] = NoRef
                THEN c \notin manifest.data
                ELSE /\ c \in manifest.data
                     /\ disk[c].st = "ok"
                     /\ {disk[c].data[i] : i \in 1..Len(disk[c].data)}
                          = {heap[collectionData[c]][i] :
                               i \in 1..Len(heap[collectionData[c]])})
  /\ [][(~isInitialized /\ isInitialized' /\ manifest.st = "ok") =>
         \A c \in Colls :
           IF c \in manifest.data /\ disk[c].st = "ok"
             THEN /\ collectionData'[c] # NoRef
                  /\ {heap'[collectionData'[c]][i] :
                        i \in 1..Len(heap'[collectionData'[c]])}
                       = {disk[c].data[i] : i \in 1..Len(disk[c].data)}
             ELSE collectionData'[c] = NoRef]_vars

\* a new instance has just loaded two documents from the collection file:
\* its cache is empty, which the cache of the instance that stored the
\* second document was not
ReopenedAfterInserts ==
  /\ isInitialized
  /\ cache = <<>>
  /\ proc[1].pc = "entered"
  /\ collectionData["u"] # NoRef
  /\ heap[collectionData["u"]] = <<<<"1", "d1">>, <<"a", "d1">>>>

\* C16: backup(path), clear(), restore(path), each awaited, leave the store
\* with the collections, ids and bodies it had when backup was called.  In
\* three parts: a backup that returns has written exactly the collections
\* and documents in memory; no step of another operation, clear among them,
\* changes the backup file; a restore that returns leaves in memory exactly
\* the collections and documents of the backup file
BackupRestoreRoundTrip ==
  [][\A p \in Procs :
       /\ (proc[p].pc = "backupWrite" /\ proc'[p].pc = "idle") =>
            /\ proc'[p].result = "ok"
            /\ backupFile'.st = "ok"
            /\ \A c \in Colls :
                 IF collectionData[c] = NoRef
                   THEN backupFile'.data[c] = Absent
                   ELSE /\ backupFile'.data[c].st = "ok"
                        /\ {backupFile'.data[c].data[i] :
                              i \in 1..Len(backupFile'.data[c].data)}
                             = {heap[collectionData[c]][i] :
                                  i \in 1..Len(heap[collectionData[c]])}
       /\ proc[p].op # "backup" /\ proc'[p] # proc[p] => backupFile' = backupFile
       /\ (proc[p].op = "restore" /\ proc[p].pc # "idle" /\ proc'[p].pc = "idle"
             /\ proc'[p].result = "ok") =>
            \A c \in Colls :
              IF backupFile.data[c].st # "ok"
                THEN collectionData'[c] = NoRef
                ELSE /\ collectionData'[c] # NoRef
                     /\ {heap'[collectionData'[c]][i] :
                           i \in 1..Len(heap'[collectionData'[c]])}
                          = {backupFile.data[c].data[i] :
                               i \in 1..Len(backupFile.data[c].data)}]_vars

\* a restore has returned on a store that clear had emptied, folder
\* included, and the store holds the document again
RestoredAfterClear ==
  /\ proc[1].op = "restore" /\ proc[1].pc = "idle" /\ proc[1].result = "ok"
  /\ cache = <<>>
  /\ collectionData["v"] # NoRef
  /\ heap[collectionData["v"]] = <<<<"1", "d2">>>>
  /\ collectionData["u"] = NoRef
  /\ backupFile.data["v"] = File(<<<<"1", "d2">>>>)
  /\ disk["v"] = File(<<<<"1", "d2">>>>)
  /\ manifest = [st |-> "ok", data |-> {"v"}]

(***************************************************************************)
(* Properties of a restore that fails                                      *)
(***************************************************************************)
\* C17: when restore rejects, because the backup file is missing or not
\* JSON or because a write of a restored collection or of the manifest
\* failed, the store holds the collections and documents that the handle
\* operations observed just before the call.  Before the call they observed
\* the Maps in memory if the store was bootstrapped, and else what the
\* bootstrap loads; a store that rejects before it is bootstrapped is, folder
\* included, as it was at the call, so that they observe the same again
RestoreRollback ==
  [][\A p \in Procs :
       (/\ observed.on
        /\ proc[p].op = "restore" /\ proc[p].pc # "idle"
        /\ proc'[p].pc = "idle" /\ proc'[p].result = "error")
       => IF observed.known
            THEN View(collectionData', heap') = observed.view
            ELSE /\ ~isInitialized'
                 /\ View(collectionData', heap') = observed.view
                 /\ UNCHANGED files]_vars

(***************************************************************************)
(* Properties of the bootstrap                                             *)
(***************************************************************************)
\* C18: whatever operations are started on a store, several of them before
\* the first bootstrap has finished included, the store is bootstrapped
\* once: no two calls are inside the load-manifest-or-scan-folder sequence
\* together, and none is inside it once the store is initialized, so that
\* the Maps a bootstrap registered are not replaced or cleared by another
BootstrapOnce ==
  /\ \A p, q \in Procs :
       proc[p].pc \in BootPcs /\ proc[q].pc \in BootPcs => p = q
  /\ isInitialized => \A p \in Procs : proc[p].pc \notin BootPcs

\* C19: a bootstrap that finds the manifest missing or not JSON does not
\* fail: it ends with every collection file of the folder loaded as a
\* collection, with no other collection in memory, and with a new manifest
\* that lists exactly the collection files of the folder
ManifestHealed ==
  [][\A p \in Procs :
       /\ (proc[p].pc = "readIndex" /\ proc'[p] # proc[p] /\ manifest.st # "ok")
            => proc'[p].pc = "readdir"
       /\ (proc[p].pc \in {"readdir", "scanLoad"} /\ proc'[p] # proc[p])
            => proc'[p].pc \in {"scanLoad", "bootSaveIndex"}
       /\ (proc[p].pc = "bootSaveIndex" /\ proc'[p] # proc[p]) =>
            /\ proc'[p].pc = "entered"
            /\ isInitialized'
            /\ \A c \in Colls :
                 View(collectionData', heap')[c] =
                   IF disk[c].st = "absent" THEN Absent
                   ELSE File(MapFromObject(disk[c].data))
            /\ manifest' = [st |-> "ok",
                            data |-> {c \in Colls : disk[c].st # "absent"}]]_vars

\* the bootstrap has replaced a manifest that was not JSON by one that
\* lists the two collection files, and both collections are in memory
HealedFromBroken ==
  /\ isInitialized
  /\ ops = MaxSeqOps - 1
  /\ proc[1].pc = "entered"
  /\ manifest = [st |-> "ok", data |-> {"u", "v"}]
  /\ View(collectionData, heap) = [c \in Colls |-> disk[c]]
  /\ disk["v"] = File(<<<<"1", "d2">>>>)

WriteFailureKept ==
  [][\A p \in Procs :
       LET me == proc[p]
           r == collectionData[me.c]
           key == CacheKey(me.c, me.id)
       IN /\ (/\ me.pc \in {"saveColl", "deleteSave", "saveIndex"}
               /\ proc'[p].pc = "settled" /\ proc'[p].result = "error") =>
                /\ View(collectionData', heap') = View(collectionData, heap)
                /\ cache' = cache
                /\ emitted' = emitted
          /\ (me.pc = "settled" /\ me.result = "error" /\ proc'[p].pc = "idle") =>
                /\ proc'[p].result = "error"
                /\ emitted.n[p] = 0
                /\ IF me.op = "delete"
                     THEN /\ r = NoRef \/ ~MapHas(heap[r], me.id)
                          /\ ~CacheHas(cache, key)
                     ELSE /\ r # NoRef
                          /\ MapHas(heap[r], me.id)
                          /\ MapGet(heap[r], me.id) = me.doc
                          /\ CacheHas(cache, key)
                          /\ CacheGet(cache, key) = me.doc]_vars

\* an insert was rejected because the manifest could not be written: its
\* document is in the Map and in the cache, and the manifest does not list
\* the collection
InsertRejectedKept ==
  /\ emitted.on
  /\ proc[1].op = "insert" /\ proc[1].pc = "idle" /\ proc[1].result = "error"
  /\ collectionData[proc[1].c] # NoRef
  /\ MapHas(heap[collectionData[proc[1].c]], proc[1].id)
  /\ CacheHas(cache, CacheKey(proc[1].c, proc[1].id))
  /\ manifest = [st |-> "ok", data |-> {}]
  /\ emitted.last = <<>>

(***************************************************************************)
(* Properties of the collection events                                     *)
(***************************************************************************)
\* C25: an insert, an update or a delete that succeeds emits exactly one
\* event, that of its operation with its collection and id, and emits it
\* when the collection file and the manifest have been written; a call
\* that fails, an insert rejected as a duplicate among them, and a delete
\* that returns false emit none
MutationEvents ==
  [][\A p \in Procs :
       LET me == proc[p]
           r == collectionData[me.c]
       IN /\ (me.op \in Mutations /\ me.pc = "settled" /\ proc'[p].pc = "idle") =>
                emitted.n[p] = IF me.result \in {"ok", "true"} THEN 1 ELSE 0
          /\ (emitted.on /\ emitted'.n[p] > emitted.n[p]) =>
                /\ emitted'.last = <<me.op, me.c, me.id>>
                /\ proc'[p].result \in {"ok", "true"}
                /\ manifest' = [st |-> "ok", data |-> collectionFiles]
                /\ IF r = NoRef
                     THEN disk[me.c] = Absent /\ me.c \notin collectionFiles
                     ELSE /\ disk[me.c] = File(ObjectFromEntries(heap[r]))
                          /\ me.c \in collectionFiles]_vars

\* a delete that took the last document of its collection has emitted its
\* event: the file is unlinked and the manifest lists nothing
DeleteEventEmitted ==
  /\ emitted.on
  /\ emitted.last = <<"delete", "u", "a">>
  /\ emitted.n[1] = 1
  /\ proc[1].pc = "settled"
  /\ disk["u"] = Absent
  /\ manifest = [st |-> "ok", data |-> {}]

(***************************************************************************)
(* Properties of the cache                                                 *)
(***************************************************************************)
\* C22: the cache evicts in the order of first insertion.  A key that is
\* not in the cache and is added at capacity evicts exactly the oldest
\* entry and becomes the newest; a hit of findById changes nothing; setting
\* a key that is in the cache evicts nothing and keeps the order of the
\* keys, so that the entry evicted next is the same as before
CacheFifo ==
  [][\A p \in Procs :
       LET me == proc[p]
           key == CacheKey(me.c, me.id)
           reads == me.op = "findById" /\ me.pc = "entered" /\ proc'[p].pc = "idle"
           sets == /\ me.op \in {"insert", "update"}
                   /\ me.pc \in {"granted", "loadColl"}
                   /\ proc'[p].pc = "saveColl"
       IN /\ (reads /\ CacheHas(cache, key)) => cache' = cache
          /\ (sets \/ (reads /\ cache' # cache)) =>
               IF CacheHas(cache, key)
                 THEN [i \in 1..Len(cache') |-> cache'[i][1]]
                        = [i \in 1..Len(cache) |-> cache[i][1]]
                 ELSE /\ CacheHas(cache', key)
                      /\ cache' = Append(IF Len(cache) >= MaxMemoryItems
                                           THEN Tail(cache) ELSE cache,
                                         cache'[Len(cache')])]_vars

\* C23: whatever the capacity and whatever inserts, updates, findByIds and
\* deletes were made, the cache never holds more than maxMemoryItems entries
CacheBound == Len(cache) <= MaxMemoryItems

\* the cache is full and has lost the entry of a document that an earlier
\* call of the instance had stored and cached: every call so far has added
\* a key, one more than the cache can hold
CacheEvicted ==
  /\ Len(cache) = MaxMemoryItems
  /\ ops = MaxSeqOps - MaxMemoryItems - 1
  /\ Stored("u", "a")
  /\ MapGet(heap[collectionData["u"]], "a") = "d2"
  /\ ~CacheHas(cache, CacheKey("u", "a"))

(***************************************************************************)
(* Properties of a reentrant acquisition                                   *)
(***************************************************************************)
\* C24: once a fn running under the lock has called acquire(g) and waits for
\* it, fn stays at that await (neither g nor the rest of fn runs), the lock
\* stays taken, the request of g stays in the queue, and every other caller
\* of acquire, earlier in the queue or later, stays a waiter: none is granted
\* the lock
ReentrantDeadlock ==
  [][\A p \in Procs :
       proc[p].pc = "inner" =>
         /\ proc'[p].pc = "inner"
         /\ locked /\ locked'
         /\ \E i \in 1..Len(queue') : queue'[i] = p
         /\ \A q \in Procs \ {p} :
              /\ proc[q].pc \notin HoldPcs \cup {"inner", "innerGranted"}
              /\ proc'[q].pc \notin HoldPcs \cup {"inner", "innerGranted"}
              /\ proc[q].pc = "waiting" => proc'[q].pc = "waiting"
              /\ (\E i \in 1..Len(queue) : queue[i] = q)
                   => \E i \in 1..Len(queue') : queue'[i] = q]_vars

\* a fn waits for its inner acquire, one caller had queued before it and
\* another after it, and both wait
ReentrantDeadlocked ==
  \E p, q, r \in Procs :
    /\ proc[p].pc = "inner"
    /\ proc[q].pc = "waiting" /\ proc[r].pc = "waiting"
    /\ \E i, j, k \in 1..Len(queue) :
         i < j /\ j < k /\ queue[i] = q /\ queue[j] = p /\ queue[k] = r

(***************************************************************************)
(* Properties of the statistics                                            *)
(***************************************************************************)
\* C26: when the store is bootstrapped and at rest, totalDocuments of
\* getStats() is what db.count() returns and is the sum of documentCount over
\* the collections of getStats(), and the documentCount of each of these
\* collections is what count() of that collection returns
StatsConsistent ==
  (Quiescent /\ isInitialized) =>
    LET stats == GetStats(collectionData, heap, cache)
        RECURSIVE sum(_)
        sum(i) == IF i = 0 THEN 0
                  ELSE sum(i - 1) + stats.collections[i].documentCount
    IN /\ stats.totalDocuments = Count(collectionData, heap, cache)
       /\ stats.totalDocuments = sum(Len(stats.collections))
       /\ \A i \in 1..Len(stats.collections) :
            stats.collections[i].documentCount =
              CollectionCount(collectionData, heap, stats.collections[i].name)

\* at rest with two documents in one collection and one in the other, and a
\* cache that holds fewer entries
StatsOfThree ==
  /\ Quiescent /\ isInitialized
  /\ GetStats(collectionData, heap, cache).totalDocuments = 3
  /\ CollectionCount(collectionData, heap, "u") = 2
  /\ CollectionCount(collectionData, heap, "v") = 1
  /\ Len(cache) < 3

(***************************************************************************)
(* Properties of a restore that succeeds                                   *)
(***************************************************************************)
\* C27: when restore returns successfully, every collection of the backup
\* is in memory and in its file with the documents of the backup, the
\* manifest lists the collections of the backup, and a collection that is
\* not in the backup is neither in memory, nor in the manifest, nor a file
\* of the storage folder
RestoreReplacesStore ==
  [][\A p \in Procs :
       (/\ proc[p].op = "restore" /\ proc[p].pc # "idle"
        /\ proc'[p].pc = "idle" /\ proc'[p].result = "ok")
       => /\ View(collectionData', heap') = proc[p].bak
          /\ disk' = proc[p].bak
          /\ manifest' = [st |-> "ok",
                          data |-> {c \in Colls : proc[p].bak[c] # Absent}]]_vars

(***************************************************************************)
(* Properties of overlapping inserts of one id                             *)
(***************************************************************************)
\* C28: two inserts of one id into one collection that did not hold it,
\* called by two callers so that they overlap (the one that returns last was
\* in flight while the other was inside _ensureInitialized): when the second
\* of them returns, one has succeeded, the other has failed with the
\* already-exists error, and the collection holds the document of the one
\* that succeeded
SameIdInsertOneWins ==
  [][\A p, q \in Callers :
       (/\ p # q
        /\ proc[p].op = "insert" /\ proc[q].op = "insert"
        /\ proc[p].c = proc[q].c /\ proc[p].id = proc[q].id
        /\ proc[p].id \in MoreIds \ {"a"}
        /\ proc[q].pc = "idle"
        /\ proc[p].pc # "idle" /\ proc'[p].pc = "idle"
        /\ ~quiet[p])
       => /\ {proc'[p].result, proc[q].result} = {"ok", "conflict"}
          /\ collectionData'[proc[p].c] # NoRef
          /\ MapHas(heap'[collectionData'[proc[p].c]], proc[p].id)
          /\ MapGet(heap'[collectionData'[proc[p].c]], proc[p].id)
               = IF proc'[p].result = "ok" THEN proc[p].doc ELSE proc[q].doc]_vars

(***************************************************************************)
(* Properties of ids of different types                                    *)
(***************************************************************************)
\* C29: a call given the number 1 (the first caller) and a call given the
\* string "1" (the second caller) address one document, the one under the
\* key "1" of the Map and under "u:1" of the cache: an insert of either fails
\* as a duplicate when the collection holds a document under "1", whichever
\* of the two ids it was inserted with, and else stores its document there;
\* an update of either sets that document, in the Map and in the cache; a
\* delete of either removes it from both, and returns false without it; a
\* findById of either returns it
CrossTypeIds ==
  [][\A p \in Callers :
       LET me == proc[p]
           has == Stored("u", "1")
           doc == IF CacheHas(cache, "u:1") THEN CacheGet(cache, "u:1")
                  ELSE IF has THEN MapGet(heap[collectionData["u"]], "1")
                  ELSE "null"
           decides == /\ me.pc \in {"granted", "loadColl"}
                      /\ proc'[p].pc \notin {"granted", "loadColl"}
           set == /\ proc'[p].pc = "saveColl"
                  /\ collectionData'["u"] # NoRef
                  /\ MapHas(heap'[collectionData'["u"]], "1")
                  /\ MapGet(heap'[collectionData'["u"]], "1") = me.doc
                  /\ CacheHas(cache', "u:1")
                  /\ CacheGet(cache', "u:1") = me.doc
       IN (p = 1 \/ me.id = "1") =>
            /\ (me.op = "insert" /\ decides) =>
                  IF has THEN /\ proc'[p].result = "conflict"
                              /\ UNCHANGED <<collectionData, cache>>
                              /\ heap'[collectionData["u"]] = heap[collectionData["u"]]
                  ELSE set
            /\ (me.op = "update" /\ decides) => set
            /\ (me.op = "delete" /\ decides) =>
                  IF has THEN /\ proc'[p].pc = "deleteSave"
                              /\ ~MapHas(heap'[proc'[p].ref], "1")
                              /\ ~CacheHas(cache', "u:1")
                  ELSE proc'[p].result = "false"
            /\ (me.op = "findById" /\ me.pc = "entered") =>
                  proc'[p].result = doc]_vars

\* insert(1, a) succeeded, then insert("1", b) with another document failed
\* as a duplicate; the collection holds a under "1"
CrossTypeDuplicate ==
  /\ Quiescent
  /\ ops = MaxSeqOps - 2
  /\ proc[1].op = "insert" /\ proc[1].result = "ok"
  /\ proc[2].op = "insert" /\ proc[2].id = "1" /\ proc[2].result = "conflict"
  /\ proc[2].doc # proc[1].doc
  /\ Stored("u", "1")
  /\ MapGet(heap[collectionData["u"]], "1") = proc[1].doc

(***************************************************************************)
(* Properties of the limit of find                                         *)
(***************************************************************************)
\* C30: a find that was given a limit l >= 0 in its options has returned at
\* most l documents
LimitIsUpperBound ==
  \A p \in Procs :
    (/\ proc[p].op = "find" /\ proc[p].pc = "idle"
     /\ proc[p].opts.limit # Undefined)
    => Len(proc[p].found) <= proc[p].opts.limit

(***************************************************************************)
(* Properties of a fn that throws under the WriteMutex                     *)
(***************************************************************************)
\* C31: when the fn of acquire(fn) has thrown or rejected (insert found a
\* duplicate, a file write failed), the lock is released once: the caller
\* leaves with the error of fn, the caller at the head of the queue is
\* granted the lock and no other, and without a waiter the lock is free; so
\* the lock is taken exactly while one caller is between grant and release
LockSurvivesFailure ==
  /\ [](locked <=> \E p \in Procs : proc[p].pc \in HoldPcs)
  /\ [][\A p \in Procs :
          (/\ proc[p].pc = "settled" /\ proc[p].result \in {"error", "conflict"}
           /\ proc'[p].pc # "settled")
          => /\ proc'[p].pc = "idle" /\ proc'[p].result = proc[p].result
             /\ IF queue = <<>>
                  THEN ~locked' /\ queue' = <<>>
                  ELSE /\ locked' /\ queue' = Tail(queue)
                       /\ proc[Head(queue)].pc = "waiting"
                       /\ proc'[Head(queue)].pc = "granted"
                       /\ \A q \in Procs \ {Head(queue)} :
                            proc'[q].pc # "granted"]_vars

\* the write of a caller failed while another waited; the waiter has been
\* granted the lock and its fn is running, and the error is with the caller
FailureThenNext ==
  \E p, q \in Procs :
    /\ proc[p].pc = "idle" /\ proc[p].result = "error"
    /\ proc[q].pc \in FnPcs
    /\ quiet[q]

(***************************************************************************)
(* Properties of the moment an event is emitted                            *)
(***************************************************************************)
\* C32: when an insert, an update or a delete emits its collection event,
\* the WriteMutex that the mutation held has been released: the emitter is
\* no longer between grant and release
EventAfterRelease ==
  [][\A p \in Procs : Emits(p) => proc'[p].pc \notin HoldPcs]_vars

(***************************************************************************)
(* Properties of the cache keys                                            *)
(***************************************************************************)
\* C37: a findById(id) on collection C that returns a document returns the
\* document stored under id in C, for all collection names and ids
CollectionsIsolated ==
  [][\A p \in Procs :
       (proc'[p] # proc[p] /\ proc'[p].op = "findById" /\ proc'[p].result # "null")
       => \E i \in 1..Len(KeyNames) :
            /\ KeyNames[i] = proc'[p].c
            /\ MapHas(heap[i], proc'[p].id)
            /\ MapGet(heap[i], proc'[p].id) = proc'[p].result]_vars

(***************************************************************************)
(* Properties of dropCollection                                            *)
(***************************************************************************)
\* C33: a dropCollection of a collection that is not in memory returns
\* false and changes nothing; else it returns true, the collection is gone
\* with every cache entry of its ids, and the other collections and the
\* cache entries of their documents are as they were
DropFrame ==
  [][\A p \in Procs :
       (proc'[p] # proc[p] /\ proc'[p].op = "dropCollection")
       => \E i \in 1..Len(KeyNames) :
            /\ KeyNames[i] = proc'[p].c
            /\ IF heap[i] = <<>>
                 THEN proc'[p].result = "false" /\ UNCHANGED <<heap, cache>>
                 ELSE /\ proc'[p].result = "true"
                      /\ heap'[i] = <<>>
                      /\ \A id \in KeyIds : ~CacheHas(cache', CacheKey(KeyNames[i], id))
                      /\ \A j \in 1..Len(KeyNames) \ {i} :
                           /\ heap'[j] = heap[j]
                           /\ \A id \in KeyIds :
                                LET key == CacheKey(KeyNames[j], id)
                                IN (MapHas(heap[j], id) /\ CacheHas(cache, key)) =>
                                     /\ CacheHas(cache', key)
                                     /\ CacheGet(cache', key) = CacheGet(cache, key)]_vars

NoStarvation ==
  \A p \in Procs :
    /\ (proc[p].pc \in {"entered", "waiting"})
         ~> (proc[p].pc \in FnPcs \cup {"settled"})
    /\ (proc[p].pc # "idle") ~> (proc[p].pc = "idle")

\* two callers wait in the queue while a third runs its fn
TwoQueued ==
  /\ Len(queue) = 2
  /\ \E p \in Procs : proc[p].pc \in FnPcs

(***************************************************************************)
(* Durability of acknowledged writes                                       *)
(***************************************************************************)
\* C36: a document whose insert has returned successfully stays in the Map
\* of its collection, where find() and findById read it, as long as nothing
\* deletes or replaces it, also when other inserts were called before the
\* bootstrap had finished (the callers here only insert, each under its own
\* id)
AcknowledgedInsertStays ==
  \A p \in Callers :
    (/\ proc[p].pc = "idle"
     /\ proc[p].op = "insert"
     /\ proc[p].result = "ok")
    => Stored(proc[p].c, proc[p].id)

(***************************************************************************)
(* Overwriting a cached key                                                *)
(***************************************************************************)
\* C39: when insert or update sets a value under a cache key that is in the
\* cache, every other entry of the cache is still there afterwards, also
\* when the cache is full
OverwriteEvictsNothing ==
  [][\A p \in Procs :
       LET me == proc[p]
           key == CacheKey(me.c, me.id)
       IN (/\ me.op \in {"insert", "update"}
           /\ me.pc \in {"granted", "loadColl"}
           /\ proc'[p].pc = "saveColl"
           /\ CacheHas(cache, key))
          => \A i \in 1..Len(cache) :
               cache[i][1] # key =>
                 \E j \in 1..Len(cache') : cache'[j] = cache[i]]_vars

(***************************************************************************)
(* The position of an updated document                                     *)
(***************************************************************************)
\* C40: update(id, body) on an id the collection holds puts the new body
\* where the document was, so find() and stream() return the documents in
\* the order they had; on an id the collection does not hold it appends
\* the document after all others.  The collection before the update is its
\* Map or, when update has to load it first, the Map made from its file.
UpdateKeepsPosition ==
  [][\A p \in Procs :
       LET me == proc[p]
           before == IF collectionData[me.c] # NoRef
                       THEN Find(heap[collectionData[me.c]], NoOptions)
                     ELSE IF disk[me.c].st = "ok"
                       THEN Find(MapFromObject(disk[me.c].data), NoOptions)
                     ELSE <<>>
           after == Find(heap'[collectionData'[me.c]], NoOptions)
       IN (/\ me.op = "update"
           /\ me.pc \in {"granted", "loadColl"}
           /\ proc'[p].pc = "saveColl")
          => IF \E i \in 1..Len(before) : before[i][1] = me.id
               THEN after = [i \in 1..Len(before) |->
                               IF before[i][1] = me.id THEN <<me.id, me.doc>>
                               ELSE before[i]]
               ELSE after = Append(before, <<me.id, me.doc>>)]_vars

\* an update has set a new body for the first of two documents, which is
\* still the first; its file still holds the old body
UpdatedFirstStaysFirst ==
  \E p \in Procs :
    /\ proc[p].op = "update"
    /\ proc[p].pc = "saveColl"
    /\ collectionData[proc[p].c] # NoRef
    /\ LET m == heap[collectionData[proc[p].c]]
       IN /\ Len(m) = 2
          /\ m[1] = <<proc[p].id, proc[p].doc>>
          /\ disk[proc[p].c].st = "ok"
          /\ \E i \in 1..Len(disk[proc[p].c].data) :
               /\ disk[proc[p].c].data[i][1] = proc[p].id
               /\ disk[proc[p].c].data[i][2] # proc[p].doc

(***************************************************************************)
(* The id of a returned document                                           *)
(***************************************************************************)
\* C38: the id property of every document that insert, find, findOne and
\* stream return is the key under which the document is stored, whatever
\* properties the document has, one named id included
ReturnedIdIsKey ==
  \A p \in Procs :
    (proc[p].pc = "idle" /\ proc[p].result = "ok") =>
      LET selected == IF proc[p].op = "insert"
                        THEN <<<<proc[p].id, proc[p].doc>>>>
                      ELSE IF proc[p].op = "stream" THEN heap[1]
                      ELSE Find(heap[1], proc[p].opts)
      IN /\ Len(proc[p].found) = Len(selected)
         /\ \A i \in 1..Len(selected) :
              Property(proc[p].found[i], "id") = selected[i][1]

=============================================================================
